---- MODULE Spec2Model ----
(***************************************************************************)
(* Model of the publish hook BasicFilePublishPlugin                        *)
(* (src/hooks/publish_file.py): the getters with their fallback logic and   *)
(* the accept / validate / publish / finalize life cycle of one item.       *)
(*                                                                         *)
(* Python values are encoded as follows.                                    *)
(*   - an optional value is a tuple: None is << >>, a value v is << v >>;   *)
(*   - a string that the code inspects (extension, publish type, engine,    *)
(*     entity type) is a sequence of one-character strings;                 *)
(*   - a path is a record of its parts (see WorkPath);                      *)
(*   - a dictionary is a function from its keys.                            *)
(***************************************************************************)
EXTENDS Integers, Sequences, FiniteSets, TLC

----------------------------------------------------------------------------
(* Optional values and Python truthiness.                                  *)

None == << >>

Some(v) == << v >>

\* `if x:` for an optional string or list: neither None nor empty.
TruthySeq(o) == o # None /\ o[1] # << >>

\* `if x:` for an optional integer: neither None nor 0.
TruthyInt(o) == o # None /\ o[1] # 0

\* `if x:` for an optional name (a plain string): neither None nor ""
TruthyStr(o) == o # None /\ o[1] # ""

\* `if x:` for an optional object (a template, a path): not None.
TruthyObj(o) == o # None

----------------------------------------------------------------------------
(* Strings as character sequences.                                         *)

UpperChars == << "A", "B", "C", "D", "E", "F", "G", "H", "I", "J", "K", "L", "M",
                 "N", "O", "P", "Q", "R", "S", "T", "U", "V", "W", "X", "Y", "Z" >>

LowerChars == << "a", "b", "c", "d", "e", "f", "g", "h", "i", "j", "k", "l", "m",
                 "n", "o", "p", "q", "r", "s", "t", "u", "v", "w", "x", "y", "z" >>

LowerChar(c) ==
    IF \E i \in DOMAIN UpperChars : UpperChars[i] = c
    THEN LowerChars[CHOOSE i \in DOMAIN UpperChars : UpperChars[i] = c]
    ELSE c

UpperChar(c) ==
    IF \E i \in DOMAIN LowerChars : LowerChars[i] = c
    THEN UpperChars[CHOOSE i \in DOMAIN LowerChars : LowerChars[i] = c]
    ELSE c

\* str.lower()
Lower(s) == [i \in DOMAIN s |-> LowerChar(s[i])]

\* str.capitalize(): first character upper-cased, the rest lower-cased
Capitalize(s) == [i \in DOMAIN s |-> IF i = 1 THEN UpperChar(s[i]) ELSE LowerChar(s[i])]

\* str.lstrip("."): drop every leading dot
RECURSIVE LStripDot(_)
LStripDot(s) ==
    IF s # << >> /\ s[1] = "." THEN LStripDot(Tail(s)) ELSE s

\* `a in b` for two strings: a is a substring of b
Contains(b, a) ==
    \E i \in 0..(Len(b) - Len(a)) : SubSeq(b, i + 1, i + Len(a)) = a

\* `x in xs` for a list
InList(x, xs) == \E i \in DOMAIN xs : xs[i] = x

\* xs[k:] for a list (k counted from 0 as in Python)
SliceFrom(xs, k) == SubSeq(xs, k + 1, Len(xs))

----------------------------------------------------------------------------
(* String literals of the source.                                          *)

\* the string literals of publish_file.py, as sequences of characters
Lit ==
    [TextureFolder |-> << "T", "e", "x", "t", "u", "r", "e", " ", "F", "o", "l", "d", "e", "r" >>,
     FileSuffix |-> << " ", "F", "i", "l", "e" >>,
     Elements |-> << "e", "l", "e", "m", "e", "n", "t", "s" >>,
     images |-> << "i", "m", "a", "g", "e", "s" >>,
     maya |-> << "m", "a", "y", "a" >>,
     MayaScene |-> << "M", "a", "y", "a", " ", "S", "c", "e", "n", "e" >>,
     RenderedImage |-> << "R", "e", "n", "d", "e", "r", "e", "d", " ", "I", "m", "a", "g", "e" >>,
     Image |-> << "I", "m", "a", "g", "e" >>,
     PDF |-> << "P", "D", "F" >>,
     CustomType |-> << "C", "u", "s", "t", "o", "m" >>,
     ma |-> << "m", "a" >>,
     mb |-> << "m", "b" >>,
     dpx |-> << "d", "p", "x" >>,
     exr |-> << "e", "x", "r" >>,
     pdf |-> << "p", "d", "f" >>,
     xyz |-> << "x", "y", "z" >>,
     Shot |-> << "S", "h", "o", "t" >>,
     Asset |-> << "A", "s", "s", "e", "t" >>,
     Sequence |-> << "s", "e", "q", "u", "e", "n", "c", "e" >>,
     texturefolder |-> << "t", "e", "x", "t", "u", "r", "e", "f", "o", "l", "d", "e", "r" >>,
     Scene |-> << "s", "c", "e", "n", "e" >>,
     tx |-> << "t", "x" >>,
     MA_upper |-> << "M", "A" >>,
     DotMb |-> << ".", "m", "b" >>,
     Dot |-> << "." >>]

\* Entries of the default value of the "File Types" setting (lines 251, 258, 262).
DefaultFileTypes ==
    << << Lit.MayaScene, Lit.maya, Lit.ma, Lit.mb >>,
       << Lit.RenderedImage, Lit.images, Lit.dpx, Lit.exr >>,
       << Lit.PDF, Lit.pdf >> >>

\* A site configuration in which two entries list the same extension.
OverlapFileTypes ==
    << << Lit.Image, Lit.images, Lit.exr >>,
       << Lit.RenderedImage, Lit.images, Lit.dpx, Lit.exr >> >>

----------------------------------------------------------------------------
(* Paths.  A path is the record of the parts the code and the host look at: *)
(*   area     where it lies: "work", "standalone" (a *_standalone_*_location *)
(*            template), "publish" (the publish template), "custom"         *)
(*   entity   the entity the host resolves the path to (optional)           *)
(*   template the name of the standalone template that built it            *)
(*   engine   the sna_engine field of a standalone path                     *)
(*   base     the name part of the file name                                *)
(*   version  the version number in the file name, NoVersion when none      *)
(*   ext      the extension as the path-info hook reports it                *)
(*   frame    NoFrame for a single file, FramePattern for a %04d path,      *)
(*            n > 0 for frame n of a sequence                               *)
(*   leaf     TRUE for the file itself, FALSE for the folder holding it     *)
(***************************************************************************)

NoVersion == -1

NoFrame == -1

FramePattern == 0

WorkPath(entity, base, version, ext, frame) ==
    [area |-> "work", entity |-> entity, template |-> << >>, engine |-> << >>,
     base |-> base, version |-> version, ext |-> ext, frame |-> frame, leaf |-> TRUE]

\* os.path.dirname
dirname(path) == [path EXCEPT !.leaf = FALSE]

\* re.search(r'%(\d+)d', path): the path holds a frame pattern
HasFramePattern(path) == path.frame = FramePattern

\* sgtk: publisher.tank.context_from_path(path).entity
context_from_path_entity(path) == path.entity

\* publisher.util.get_file_path_components(path)["extension"]; a folder has none
path_extension(path) == IF path.leaf THEN path.ext ELSE << >>

\* publisher.util.get_version_number(path): None when the path carries no version
get_version_number(path) ==
    IF path.version = NoVersion THEN None ELSE Some(path.version)

\* publisher.util.get_publish_name(path, sequence): the file name without its
\* version, with the frame number replaced by its pattern for a sequence
util_get_publish_name(path, sequence) ==
    [base |-> path.base, ext |-> path.ext,
     frame |-> IF sequence /\ path.frame # NoFrame THEN FramePattern ELSE path.frame]

----------------------------------------------------------------------------
(* Templates (sgtk core).  A template is its area and the set of its keys.  *)

FieldOf(path, key) ==
    CASE key = "name" -> path.base
      [] key = "version" -> path.version
      [] key = "extension" -> path.ext

\* template.validate(path)
template_validate(tmpl, path) ==
    /\ path.area = tmpl.area
    /\ path.leaf
    /\ "version" \in tmpl.keys => path.version # NoVersion

\* template.get_fields(path): a dictionary from the template's keys
template_get_fields(tmpl, path) == [k \in tmpl.keys |-> FieldOf(path, k)]

\* template.missing_keys(fields)
template_missing_keys(tmpl, fields) == tmpl.keys \ DOMAIN fields

\* template.apply_fields(fields) for a work or publish template
template_apply_fields(tmpl, fields) ==
    [area |-> tmpl.area, entity |-> None, template |-> << >>, engine |-> << >>,
     base |-> IF "name" \in DOMAIN fields THEN fields["name"] ELSE "",
     version |-> IF "version" \in DOMAIN fields THEN fields["version"] ELSE NoVersion,
     ext |-> IF "extension" \in DOMAIN fields THEN fields["extension"] ELSE << >>,
     frame |-> NoFrame, leaf |-> TRUE]

\* the dictionary {} / the list [] handed to a template
NoFields == << >>

----------------------------------------------------------------------------
(* Items (tk-multi-publish2 api).                                           *)

NoProperties ==
    [path |-> None, work_template |-> None, publish_template |-> None,
     publish_type |-> None, publish_path |-> None, publish_name |-> None,
     publish_version |-> None, publish_dependencies |-> None,
     publish_user |-> None, sequence_paths |-> None, tex_variation |-> None,
     sg_publish_data |-> None]

NoLocalProperties ==
    [publish_template |-> None, publish_type |-> None, publish_path |-> None,
     publish_name |-> None, publish_version |-> None, publish_dependencies |-> None,
     publish_user |-> None]

\* `"key" in item.properties`
HasKey(properties, key) == properties[key] # None

\* item.get_property(name): the local property when it is set, else the global one
get_property_seq(item, name) ==
    IF TruthySeq(item.local_properties[name])
    THEN item.local_properties[name] ELSE item.properties[name]

get_property_int(item, name) ==
    IF TruthyInt(item.local_properties[name])
    THEN item.local_properties[name] ELSE item.properties[name]

get_property_obj(item, name) ==
    IF TruthyObj(item.local_properties[name])
    THEN item.local_properties[name] ELSE item.properties[name]

----------------------------------------------------------------------------
(* The getters of BasicFilePublishPlugin.                                   *)

get_publish_template(settings, item) == get_property_obj(item, "publish_template")

\* the loop over settings["File Types"].value: the first entry, in list order,
\* whose elements from the third on hold the extension
MatchingTypeDefs(settings, extension) ==
    { i \in DOMAIN settings["File Types"] :
        InList(extension, SliceFrom(settings["File Types"][i], 2)) }

FirstMatch(settings, extension) ==
    CHOOSE i \in MatchingTypeDefs(settings, extension) :
        \A j \in MatchingTypeDefs(settings, extension) : i <= j

\* publish_engine when the loop ends without a match: the loop assigns it from
\* every entry it visits, so it is left at the last entry's second element
EngineAfterLoop(settings) ==
    IF settings["File Types"] = << >>
    THEN Lit.Elements
    ELSE settings["File Types"][Len(settings["File Types"])][2]

\* a mistaken get_publish_type: the extension is looked up in the "File Types"
\* setting before the publish_type property is consulted
get_publish_type_extension_first(settings, item) ==
    LET publish_type == get_property_seq(item, "publish_type")
        raw == path_extension(item.properties.path[1])
        extension == IF raw # << >> THEN Lower(LStripDot(raw)) ELSE raw
        publish_engine == IF raw # << >> THEN EngineAfterLoop(settings) ELSE Lit.Elements
    IN  IF raw # << >> /\ MatchingTypeDefs(settings, extension) # {}
        THEN << settings["File Types"][FirstMatch(settings, extension)][1],
                settings["File Types"][FirstMatch(settings, extension)][2] >>
        ELSE IF TruthySeq(publish_type)
        THEN << publish_type[1], Lit.Elements >>
        ELSE IF extension # << >>
        THEN << Capitalize(extension) \o Lit.FileSuffix, publish_engine >>
        ELSE << Lit.TextureFolder, publish_engine >>

\* returns the pair (publish_type, publish_engine)
get_publish_type(settings, item) ==
    LET publish_type == get_property_seq(item, "publish_type")
        raw == path_extension(item.properties.path[1])
        extension == IF raw # << >> THEN Lower(LStripDot(raw)) ELSE raw
        publish_engine == IF raw # << >> THEN EngineAfterLoop(settings) ELSE Lit.Elements
    IN  IF TruthySeq(publish_type)
        THEN << publish_type[1], Lit.Elements >>
        ELSE IF raw # << >> /\ MatchingTypeDefs(settings, extension) # {}
        THEN << settings["File Types"][FirstMatch(settings, extension)][1],
                settings["File Types"][FirstMatch(settings, extension)][2] >>
        ELSE IF extension # << >>
        THEN << Capitalize(extension) \o Lit.FileSuffix, publish_engine >>
        ELSE << Lit.TextureFolder, publish_engine >>

\* the work fields of the path when the work template is set and matches it
WorkFields(item, path) ==
    LET work_template == item.properties.work_template
    IN  IF TruthyObj(work_template) /\ template_validate(work_template[1], path)
        THEN Some(template_get_fields(work_template[1], path))
        ELSE None

get_publish_path(settings, item) ==
    LET publish_path == get_property_obj(item, "publish_path")
        path == item.properties.path[1]
        work_template == item.properties.work_template
        publish_template == get_publish_template(settings, item)
        work_fields == IF WorkFields(item, path) # None
                       THEN WorkFields(item, path)[1] ELSE NoFields
    IN  IF TruthyObj(publish_path)
        THEN publish_path[1]
        ELSE IF /\ TruthyObj(work_template) /\ TruthyObj(publish_template)
                /\ template_missing_keys(publish_template[1], work_fields) = {}
        THEN template_apply_fields(publish_template[1], work_fields)
        ELSE path

\* returns an optional version number
get_publish_version(settings, item) ==
    LET publish_version == get_property_int(item, "publish_version")
        path == item.properties.path[1]
        work_fields == WorkFields(item, path)
    IN  IF TruthyInt(publish_version)
        THEN publish_version
        ELSE IF work_fields # None /\ DOMAIN work_fields[1] # {}
        THEN IF "version" \in DOMAIN work_fields[1]
             THEN Some(work_fields[1]["version"])
             ELSE None
        ELSE IF get_version_number(path) = None
        THEN Some(1)
        ELSE get_version_number(path)

get_publish_name(settings, item) ==
    LET publish_name == get_property_obj(item, "publish_name")
    IN  IF TruthyObj(publish_name)
        THEN publish_name[1]
        ELSE IF HasKey(item.properties, "sequence_paths")
        THEN util_get_publish_name(item.properties.sequence_paths[1][1], TRUE)
        ELSE util_get_publish_name(item.properties.path[1], FALSE)

\* a mistaken get_publish_dependencies: `if not dependencies` in place of
\* `if dependencies is None`, so that an empty list counts as not set
get_publish_dependencies_falsy(settings, item) ==
    LET local == item.local_properties.publish_dependencies
        global == item.properties.publish_dependencies
    IN  IF TruthySeq(local) THEN local[1]
        ELSE IF TruthySeq(global) THEN global[1]
        ELSE << >>

\* returns a list of paths
get_publish_dependencies(settings, item) ==
    LET local == item.local_properties.publish_dependencies
        global == item.properties.publish_dependencies
    IN  IF local # None THEN local[1]
        ELSE IF global # None THEN global[1]
        ELSE << >>

\* returns an optional user entity
get_publish_user(settings, item) == get_property_obj(item, "publish_user")

----------------------------------------------------------------------------
(* _get_publish_path: the publish name and path of the customised plugin.   *)

\* the pair isSequence
isSequence(settings, item) ==
    IF Contains(get_publish_type(settings, item)[2], Lit.images)
    THEN << Lit.Sequence, TRUE >>
    ELSE IF Contains(get_publish_type(settings, item)[1], Lit.TextureFolder)
    THEN << Lit.texturefolder, FALSE >>
    ELSE << Lit.Scene, FALSE >>

\* "{}_standalone_{}_location".format(entity_type.lower(), isSequence[0])
standalone_template_name(entity_type, kind) == << Lower(entity_type), kind >>

\* standalone_template.apply_fields(fields); the sequence template carries the
\* frame pattern
standalone_apply_fields(name, entity, fields) ==
    [area |-> "standalone", entity |-> entity, template |-> name,
     engine |-> fields.sna_engine, base |-> fields.name, version |-> fields.version,
     ext |-> fields.extension,
     frame |-> IF name[2] = Lit.Sequence THEN FramePattern ELSE NoFrame,
     leaf |-> TRUE]

\* the error _get_publish_path ends with, "" when it returns:
\*   item.context.entity.get('type') on a context without entity (line 1063),
\*   int(None) when the 'Publish Version' setting holds None (line 1077)
get_publish_path_error(settings, item) ==
    IF item.context.entity = None
    THEN "AttributeError"
    ELSE IF /\ context_from_path_entity(item.properties.path[1]) # item.context.entity
            /\ settings["Publish Version"] = None
    THEN "TypeError"
    ELSE ""

\* _get_publish_path when it returns: the pair (publish_name, publish_path)
internal_get_publish_path(settings, item) ==
    LET path == item.properties.path[1]
        path_entity == context_from_path_entity(path)
        seq == isSequence(settings, item)
        entity_type == item.context.entity[1].type
        texture == Contains(get_publish_type(settings, item)[1], Lit.TextureFolder)
        fields == [extension |-> IF texture THEN << >> ELSE path_extension(path),
                   name |-> settings["Export Name"],
                   sna_engine |-> get_publish_type(settings, item)[2],
                   version |-> settings["Publish Version"][1]]
        publish_path ==
            IF path_entity = item.context.entity
            THEN path
            ELSE standalone_apply_fields(
                     standalone_template_name(entity_type, seq[1]),
                     item.context.entity, fields)
    IN  << util_get_publish_name(publish_path, seq[2]), publish_path >>

----------------------------------------------------------------------------
(* The copies publish and _copy_work_to_publish make.                       *)

\* one file of the texture sequence found in the folder `path`
TextureIn(path, n) == [path EXCEPT !.ext = Lit.tx, !.frame = n]

\* frame n of the sequence `path`
FrameOf(path, n) == [path EXCEPT !.frame = n]

\* the ascending list of the elements of a set of frame numbers
RECURSIVE SortedFrames(_)
SortedFrames(frames) ==
    IF frames = {} THEN << >>
    ELSE LET m == CHOOSE n \in frames : \A k \in frames : n <= k
         IN  << m >> \o SortedFrames(frames \ {m})

\* drop the copies whose target is already present (os.path.exists)
RECURSIVE SelectCopies(_, _)
SelectCopies(copies, present) ==
    IF copies = << >> THEN << >>
    ELSE IF Head(copies).dst \in present
    THEN SelectCopies(Tail(copies), present)
    ELSE << Head(copies) >> \o SelectCopies(Tail(copies), present)

\* The copy_file calls of publish (lines 455-500), in order, for the frames the
\* glob finds on disk and the files already present at the publish location.
\* A source file is present on disk; copy_file is skipped for a target that is.
PublishCopies(settings, item, publish_path, frames, present) ==
    LET path == item.properties.path[1]
        order == SortedFrames(frames)
        texture == Contains(get_publish_type(settings, item)[1], Lit.TextureFolder)
    IN  IF texture
        THEN SelectCopies(
                 [i \in DOMAIN order |->
                    [src |-> TextureIn(path, order[i]),
                     dst |-> TextureIn(publish_path, order[i])]],
                 present \cup { TextureIn(path, n) : n \in frames })
        ELSE IF HasFramePattern(path)
        THEN SelectCopies(
                 [i \in DOMAIN order |->
                    [src |-> FrameOf(path, order[i]),
                     dst |-> FrameOf(publish_path, order[i])]],
                 present \cup { FrameOf(path, n) : n \in frames })
        ELSE << [src |-> path, dst |-> publish_path] >>

\* `publish_path % frame` (line 490) raises when the sequence path is given a
\* publish path without a frame pattern
FormatFails(settings, item, publish_path, frames) ==
    /\ ~ Contains(get_publish_type(settings, item)[1], Lit.TextureFolder)
    /\ HasFramePattern(item.properties.path[1])
    /\ ~ HasFramePattern(publish_path)
    /\ frames # {}

\* the work files _copy_work_to_publish looks at (lines 893-897)
work_files(item) ==
    IF HasKey(item.properties, "sequence_paths")
    THEN item.properties.sequence_paths[1]
    ELSE << item.properties.path[1] >>

\* a work file meets the requirements of lines 909-925
WorkFileOk(settings, item, work_file) ==
    /\ template_validate(item.properties.work_template[1], work_file)
    /\ template_missing_keys(
           get_publish_template(settings, item)[1],
           template_get_fields(item.properties.work_template[1], work_file)) = {}

\* The copy_file calls of _copy_work_to_publish, in order: none without both
\* templates or with an empty sequence; otherwise one per work file up to the
\* first file that fails a requirement.
copy_work_to_publish(settings, item) ==
    IF \/ ~ TruthyObj(item.properties.work_template)
       \/ ~ TruthyObj(get_publish_template(settings, item))
       \/ work_files(item) = << >>
    THEN << >>
    ELSE LET files == work_files(item)
             bad == { i \in DOMAIN files : ~ WorkFileOk(settings, item, files[i]) }
             n == IF bad = {} THEN Len(files)
                  ELSE (CHOOSE i \in bad : \A j \in bad : i <= j) - 1
         IN  [i \in 1..n |->
                [src |-> files[i],
                 dst |-> template_apply_fields(
                             get_publish_template(settings, item)[1],
                             template_get_fields(item.properties.work_template[1],
                                                 files[i]))]]

----------------------------------------------------------------------------
(* Steps of validate.                                                       *)

\* a mistaken test: both the work template and a publish template are needed
TemplatesInPlay_both(settings, item) ==
    /\ HasKey(item.properties, "work_template")
    /\ TruthyObj(get_publish_template(settings, item))

\* `"work_template" in item.properties or publish_template` (line 400)
TemplatesInPlay(settings, item) ==
    \/ HasKey(item.properties, "work_template")
    \/ TruthyObj(get_publish_template(settings, item))

----------------------------------------------------------------------------
(* Steps of publish.                                                        *)

\* the copy_file calls of a list of copies of which call number `fail` raises
\* (0: none does): the calls before it succeed, the calls after it are not made
Calls(copies, fail) ==
    [i \in 1..(IF fail \in DOMAIN copies THEN fail ELSE Len(copies)) |->
        [src |-> copies[i].src, dst |-> copies[i].dst, ok |-> i # fail]]

\* the folders ensure_folder_exists is called for before each work copy
Folders(calls) == { dirname(calls[i].dst) : i \in DOMAIN calls }

\* item.properties['path'] = publish_path (line 506)
WithPath(it, path) == [it EXCEPT !.properties.path = Some(path)]

\* publish_dependencies.append(...) (line 523) extends the list the getter
\* returned, which is the list stored on the item when one is stored there
WithParentDependency(it) ==
    LET parent_path == it.parent.properties.sg_publish_path
    IN  IF ~ HasKey(it.parent.properties, "sg_publish_path")
        THEN it
        ELSE IF it.local_properties.publish_dependencies # None
        THEN [it EXCEPT !.local_properties.publish_dependencies =
                            Some(Append(@[1], parent_path[1]))]
        ELSE IF it.properties.publish_dependencies # None
        THEN [it EXCEPT !.properties.publish_dependencies =
                            Some(Append(@[1], parent_path[1]))]
        ELSE it

\* a mistaken dependency list: the parent's publish path is left out
publish_dependencies_without_parent(settings, it) ==
    get_publish_dependencies(settings, it)

\* the dependency list after lines 517-523
publish_dependencies(settings, it) ==
    IF HasKey(it.parent.properties, "sg_publish_path")
    THEN Append(get_publish_dependencies(settings, it),
                it.parent.properties.sg_publish_path[1])
    ELSE get_publish_dependencies(settings, it)

\* the arguments of register_publish (lines 530-541); `settings` records the
\* settings the call was made under
publish_data(settings, it, publish_name) ==
    [context |-> it.context,
     comment |-> it.description,
     path |-> get_publish_path(settings, it),
     name |-> publish_name,
     created_by |-> get_publish_user(settings, it),
     thumbnail_path |-> it.thumbnail_path,
     version_number |-> get_publish_version(settings, it),
     published_file_type |-> get_publish_type(settings, it)[1],
     dependency_paths |-> publish_dependencies(settings, it),
     settings |-> settings]

\* the entity dictionary register_publish returns
register_publish(data) ==
    [type |-> "PublishedFile", id |-> 2, code |-> data.name, path |-> data.path]

\* a mistaken finalize: the conflicts are looked up without the context
clear_status_arguments_without_context(it) ==
    [context |-> [entity |-> None],
     publish_data |-> it.properties.sg_publish_data[1]]

\* the arguments of clear_status_for_conflicting_publishes (lines 586-590)
clear_status_arguments(it) ==
    [context |-> it.context,
     publish_data |-> it.properties.sg_publish_data[1]]

----------------------------------------------------------------------------
(* Bounds and input domains.                                                *)

\* largest version number in a path, a property or the settings widget
MaxVersion == 2

\* largest frame number of a sequence on disk
MaxFrames == 2

Shot1 == [type |-> Lit.Shot, id |-> 1]

Asset1 == [type |-> Lit.Asset, id |-> 1]

Versions == 1..MaxVersion

WorkTemplateFull == [area |-> "work", keys |-> {"name", "version", "extension"}]

WorkTemplateNoVersion == [area |-> "work", keys |-> {"name", "extension"}]

WorkTemplateNoKeys == [area |-> "work", keys |-> {}]

PublishTemplateFull == [area |-> "publish", keys |-> {"name", "version", "extension"}]

CustomPath ==
    [area |-> "custom", entity |-> None, template |-> << >>, engine |-> << >>,
     base |-> "custom", version |-> NoVersion, ext |-> Lit.ma, frame |-> NoFrame,
     leaf |-> TRUE]

CustomName == [base |-> "custom_name", ext |-> << >>, frame |-> NoFrame]

ParentPath == WorkPath(None, "parent", NoVersion, Lit.ma, NoFrame)

DepPath == WorkPath(None, "dep", NoVersion, Lit.ma, NoFrame)

DefaultSettings ==
    [name \in {"File Types", "Export Name", "Publish Version"} |->
        CASE name = "File Types" -> DefaultFileTypes
          [] name = "Export Name" -> "standalone"
          [] name = "Publish Version" -> Some(1)]

MkItem(path, entity, props, local, parent_path) ==
    [properties |-> [props EXCEPT !.path = Some(path)],
     local_properties |-> local,
     context |-> [entity |-> entity],
     description |-> "",
     thumbnail_path |-> None,
     parent |-> [properties |-> [sg_publish_path |-> parent_path]]]

\* where the file lies and what the item is linked to: the path's entity and
\* the entity of the item's context
EntityPairs ==
    { << Some(Shot1), None >>, << None, Some(Shot1) >>,
      << Some(Shot1), Some(Shot1) >>, << Some(Shot1), Some(Asset1) >> }

\* Items that vary where the file lies, what it is and which templates and
\* publish type the collector attached.
CoreItems ==
    { MkItem(WorkPath(e[1], "scene", v, ext, NoFrame), e[2],
             [NoProperties EXCEPT !.work_template = wt, !.publish_template = pt,
                                  !.publish_type = ty],
             NoLocalProperties, None) :
        e \in EntityPairs,
        v \in {NoVersion, 1},
        ext \in {<< >>, Lit.ma},
        wt \in {None, Some(WorkTemplateFull), Some(WorkTemplateNoVersion)},
        pt \in {None, Some(PublishTemplateFull)},
        ty \in {None, Some(Lit.CustomType)} }

\* Items that vary the publish_* properties set on a scene file.
PropertyItems ==
    { MkItem(WorkPath(e[1], "scene", 1, Lit.ma, NoFrame), e[2],
             [NoProperties EXCEPT !.publish_type = ty, !.publish_path = pp,
                                  !.publish_name = pn, !.publish_version = pv],
             NoLocalProperties, None) :
        e \in EntityPairs,
        ty \in {None, Some(Lit.CustomType)},
        pp \in {None, Some(CustomPath)},
        pn \in {None, Some(CustomName)},
        pv \in {None, Some(MaxVersion)} }

\* the sequence_paths a collector attaches: absent, an empty list, or two
\* files of which the second does not carry the version the first has
SequencePaths(choice, entity, ext) ==
    CASE choice = "absent" -> None
      [] choice = "empty" -> Some(<< >>)
      [] choice = "frames" -> Some(<< WorkPath(entity, "scene", 1, ext, 1),
                                      WorkPath(entity, "scene", NoVersion, ext, 2) >>)

\* Items that vary the sequence and the texture variation of rendered images.
SequenceItems ==
    { MkItem(WorkPath(e[1], "scene", 1, Lit.exr, fr), e[2],
             [NoProperties EXCEPT !.work_template = wt, !.publish_template = pt,
                                  !.sequence_paths = SequencePaths(sp, e[1], Lit.exr),
                                  !.tex_variation = tv],
             NoLocalProperties, None) :
        e \in { << None, Some(Shot1) >>, << Some(Shot1), Some(Shot1) >> },
        fr \in {NoFrame, FramePattern},
        wt \in {None, Some(WorkTemplateFull)},
        pt \in {None, Some(PublishTemplateFull)},
        sp \in {"absent", "empty", "frames"},
        tv \in {None, Some("hero")} }

\* Items that vary the dependencies and the parent of a scene file.
DependencyItems ==
    { MkItem(WorkPath(e[1], "scene", 1, Lit.ma, NoFrame), e[2],
             [NoProperties EXCEPT !.publish_dependencies = gd],
             [NoLocalProperties EXCEPT !.publish_dependencies = ld], par) :
        e \in { << None, Some(Shot1) >>, << Some(Shot1), Some(Shot1) >> },
        gd \in {None, Some(<< >>), Some(<< DepPath >>)},
        ld \in {None, Some(<< >>), Some(<< DepPath >>)},
        par \in {None, Some(ParentPath)} }

\* Items that vary the extension and the publish_type property, set locally
\* or globally, to the empty string or to a type.
TypeItems ==
    { MkItem(WorkPath(None, "scene", 1, ext, NoFrame), Some(Shot1),
             [NoProperties EXCEPT !.publish_type = gty],
             [NoLocalProperties EXCEPT !.publish_type = lty], None) :
        ext \in {<< >>, Lit.Dot, Lit.ma, Lit.MA_upper, Lit.DotMb, Lit.exr, Lit.pdf, Lit.maya, Lit.xyz},
        gty \in {None, Some(<< >>), Some(Lit.CustomType), Some(Lit.TextureFolder)},
        lty \in {None, Some(<< >>), Some(Lit.PDF)} }

\* Items that vary the version in the path, the work template and the
\* publish_version property.
VersionItems ==
    { MkItem(WorkPath(None, "scene", v, Lit.ma, NoFrame), Some(Shot1),
             [NoProperties EXCEPT !.work_template = wt, !.publish_version = gpv],
             [NoLocalProperties EXCEPT !.publish_version = lpv], None) :
        v \in {NoVersion} \cup Versions,
        wt \in {None, Some(WorkTemplateFull), Some(WorkTemplateNoVersion),
                Some(WorkTemplateNoKeys),
                Some([area |-> "publish", keys |-> {"name", "version"}])},
        gpv \in {None, Some(0), Some(MaxVersion)},
        lpv \in {None, Some(MaxVersion + 1)} }

GetterItems == TypeItems \cup VersionItems \cup PropertyItems \cup DependencyItems

GetterSettings ==
    { [DefaultSettings EXCEPT !["File Types"] = ft] :
        ft \in {DefaultFileTypes, OverlapFileTypes, << >>} }

Items == CoreItems \cup PropertyItems \cup SequenceItems \cup DependencyItems

\* what get_conflicting_publishes may return: no publish, or an earlier one
OldPublish == [type |-> "PublishedFile", id |-> 1]

ConflictLists == { << >>, << OldPublish >> }

\* what the glob of publish may find for the item: frames of a sequence or
\* files of a texture folder; nothing is looked for next to a single file
FramesOnDisk(it) ==
    IF HasFramePattern(it.properties.path[1]) \/ it.properties.path[1].ext = << >>
    THEN SUBSET (1..MaxFrames)
    ELSE { {} }

\* what the user may type into the settings widget (CustomNameWidget)
ExportNames == {"standalone", "hero"}

----------------------------------------------------------------------------
(* Exceptions and log records.                                              *)

NoError == [type |-> "", msg |-> "", args |-> << >>]

LinkMsg == "You Need to Link Publish element to Shot or Asset"

ConflictMsg == "Can not validate file path. There is already a publish in Shotgun that matches this path. Please uncheck this plugin or save the file to a different path."

CopyMsg == "Failed to copy sequence from '%s' to '%s'."

WorkCopyMsg == "Failed to copy work file from '%s' to '%s'."

Error(type, msg, args) == [type |-> type, msg |-> msg, args |-> args]

WarnMsg == "Found %s conflicting publishes in Shotgun"

\* one call of self.logger at error or warning level; `extra` is the list shown
\* with it
LogRecord(level, msg, extra) == [level |-> level, msg |-> msg, extra |-> extra]

SequenceMsg == "Sequence publish without a list of files. Publishing the sequence path in place: %s"

NoMatchMsg == "Work file '%s' did not match work template '%s'. Publishing in place."

MissingKeysMsg == "Work file '%s' missing keys required for the publish template: %s"

\* The warnings _copy_work_to_publish logs when every copy it attempts
\* succeeds (lines 898-902, 910-914, 920-924): at most one, for the requirement
\* that ended the method.
copy_work_log(settings, it) ==
    IF \/ ~ TruthyObj(it.properties.work_template)
       \/ ~ TruthyObj(get_publish_template(settings, it))
    THEN {}
    ELSE IF work_files(it) = << >>
    THEN { LogRecord("warning", SequenceMsg, << it.properties.path[1] >>) }
    ELSE LET files == work_files(it)
             bad == { i \in DOMAIN files : ~ WorkFileOk(settings, it, files[i]) }
             first == CHOOSE i \in bad : \A j \in bad : i <= j
         IN  IF bad = {} THEN {}
             ELSE IF ~ template_validate(it.properties.work_template[1], files[first])
             THEN { LogRecord("warning", NoMatchMsg, << files[first] >>) }
             ELSE { LogRecord("warning", MissingKeysMsg, << files[first] >>) }

----------------------------------------------------------------------------
(* The helpers that bump the version of a session file.                     *)

NoNextPathMsg == "Could not determine the next version path."

NextExistsMsg == "The next version of the path already exists"

\* publisher.util.get_next_version_path(path): None when the path carries no
\* version
util_get_next_version_path(path) ==
    IF path.version = NoVersion THEN None
    ELSE Some([path EXCEPT !.version = @ + 1])

\* a mistaken _get_next_version_info: the path-info branch reports the
\* current version in place of the next one
get_next_version_info_current(path, it) ==
    IF ~ TruthyObj(path)
    THEN << None, None >>
    ELSE LET work_template == it.properties.work_template
             work_fields == WorkFields(it, path[1])
         IN  IF /\ work_fields # None
                /\ DOMAIN work_fields[1] # {}
                /\ "version" \in DOMAIN work_fields[1]
             THEN << Some(template_apply_fields(
                              work_template[1],
                              [work_fields[1] EXCEPT !["version"] = @ + 1])),
                     Some(work_fields[1]["version"] + 1) >>
             ELSE << util_get_next_version_path(path[1]),
                     get_version_number(path[1]) >>

\* _get_next_version_info(path, item) for an optional path: the pair
\* (next_version_path, version), both optional
get_next_version_info(path, it) ==
    IF ~ TruthyObj(path)
    THEN << None, None >>
    ELSE LET work_template == it.properties.work_template
             work_fields == WorkFields(it, path[1])
         IN  IF /\ work_fields # None
                /\ DOMAIN work_fields[1] # {}
                /\ "version" \in DOMAIN work_fields[1]
             THEN << Some(template_apply_fields(
                              work_template[1],
                              [work_fields[1] EXCEPT !["version"] = @ + 1])),
                     Some(work_fields[1]["version"] + 1) >>
             ELSE << util_get_next_version_path(path[1]),
                     IF get_version_number(path[1]) # None
                     THEN Some(get_version_number(path[1])[1] + 1)
                     ELSE None >>

\* a mistaken _save_to_next_version: a file at the next version path is
\* overwritten
save_to_next_version_overwrite(path, it, exists) ==
    LET info == get_next_version_info(path, it)
    IN  IF info[2] = None
        THEN [ret |-> None, saved |-> << >>, log |-> {}]
        ELSE IF ~ TruthyObj(info[1])
        THEN [ret |-> None, saved |-> << >>,
              log |-> { LogRecord("warning", NoNextPathMsg, << >>) }]
        ELSE [ret |-> info[1], saved |-> << info[1][1] >>, log |-> {}]

\* _save_to_next_version(path, item, save_callback) when os.path.exists gives
\* `exists` for the next version path: the value returned, the save_callback
\* calls made and the warnings logged
save_to_next_version(path, it, exists) ==
    LET info == get_next_version_info(path, it)
    IN  IF info[2] = None
        THEN [ret |-> None, saved |-> << >>, log |-> {}]
        ELSE IF ~ TruthyObj(info[1])
        THEN [ret |-> None, saved |-> << >>,
              log |-> { LogRecord("warning", NoNextPathMsg, << >>) }]
        ELSE IF exists
        THEN [ret |-> None, saved |-> << >>,
              log |-> { LogRecord("warning", NextExistsMsg, << info[1][1] >>) }]
        ELSE [ret |-> info[1], saved |-> << info[1][1] >>, log |-> {}]

\* the paths a subclass hands to the helpers: none, or a session file with
\* or without a version
HelperPaths ==
    {None} \cup { Some(WorkPath(None, "scene", v, Lit.ma, NoFrame)) :
                    v \in {NoVersion} \cup Versions }

HelperItems == CoreItems \cup SequenceItems \cup VersionItems

----------------------------------------------------------------------------
(* Python strings of the Draft scripts, as sequences of characters.         *)

Digits == << "0", "1", "2", "3", "4", "5", "6", "7", "8", "9" >>

IsDigit(c) == \E i \in DOMAIN Digits : Digits[i] = c

DigitVal(c) == (CHOOSE i \in DOMAIN Digits : Digits[i] = c) - 1

IsSpace(c) == c \in {" ", "\t", "\n", "\r"}

\* the decimal numeral of a natural number
RECURSIVE RenderNat(_)
RenderNat(n) ==
    IF n < 10 THEN << Digits[n + 1] >>
    ELSE RenderNat(n \div 10) \o << Digits[(n % 10) + 1] >>

\* str(n)
RenderInt(n) == IF n < 0 THEN << "-" >> \o RenderNat(0 - n) ELSE RenderNat(n)

\* the value of a non-empty sequence of digits
RECURSIVE ParseNat(_)
ParseNat(s) ==
    IF Len(s) = 1 THEN DigitVal(s[1])
    ELSE 10 * ParseNat(SubSeq(s, 1, Len(s) - 1)) + DigitVal(s[Len(s)])

AllDigits(s) == s # << >> /\ \A i \in DOMAIN s : IsDigit(s[i])

\* s.strip()
RECURSIVE LStrip(_)
LStrip(s) == IF s # << >> /\ IsSpace(Head(s)) THEN LStrip(Tail(s)) ELSE s

RECURSIVE RStrip(_)
RStrip(s) ==
    IF s # << >> /\ IsSpace(s[Len(s)]) THEN RStrip(SubSeq(s, 1, Len(s) - 1)) ELSE s

Strip(s) == RStrip(LStrip(s))

\* int(s): the optional value; None stands for ValueError
python_int(s) ==
    LET t == Strip(s)
        signed == t # << >> /\ t[1] \in {"-", "+"}
        body == IF signed THEN Tail(t) ELSE t
    IN  IF ~ AllDigits(body) THEN None
        ELSE IF signed /\ t[1] = "-" THEN Some(0 - ParseNat(body))
        ELSE Some(ParseNat(body))

\* the number of digits of s from position i on (1-based)
RECURSIVE DigitRun(_, _)
DigitRun(s, i) ==
    IF i <= Len(s) /\ IsDigit(s[i]) THEN 1 + DigitRun(s, i + 1) ELSE 0

\* s holds the word w at position i
StartsWith(s, i, w) ==
    /\ i + Len(w) - 1 <= Len(s)
    /\ SubSeq(s, i, i + Len(w) - 1) = w

\* string.find(s, c, start) with a 0-based start: the 0-based index, -1 when
\* there is none
Find(s, c, start) ==
    LET hits == { i \in DOMAIN s : i > start /\ s[i] = c }
    IN  IF hits = {} THEN -1
        ELSE (CHOOSE i \in hits : \A j \in hits : i <= j) - 1

\* float(s) for a decimal literal: optional sign, digits with at most one
\* dot and at least one digit.  The optional value is the pair of the signed
\* number the digits spell and the count of digits behind the dot; None stands
\* for ValueError.
python_float(s) ==
    LET t == Strip(s)
        signed == t # << >> /\ t[1] \in {"-", "+"}
        body == IF signed THEN Tail(t) ELSE t
        dots == { i \in DOMAIN body : body[i] = "." }
        digits == SelectSeq(body, IsDigit)
        scale == IF dots = {} THEN 0 ELSE Len(body) - (CHOOSE i \in dots : TRUE)
    IN  IF \/ digits = << >>
           \/ Cardinality(dots) > 1
           \/ Len(digits) + Cardinality(dots) # Len(body)
        THEN None
        ELSE IF signed /\ t[1] = "-"
        THEN Some([num |-> 0 - ParseNat(digits), scale |-> scale])
        ELSE Some([num |-> ParseNat(digits), scale |-> scale])

\* s.split(): the runs of characters between whitespace; `cur` is the run
\* being read
RECURSIVE PySplit(_, _)
PySplit(s, cur) ==
    LET done == IF cur = << >> THEN << >> ELSE << cur >>
    IN  IF s = << >> THEN done
        ELSE IF IsSpace(Head(s)) THEN done \o PySplit(Tail(s), << >>)
        ELSE PySplit(Tail(s), Append(cur, Head(s)))

----------------------------------------------------------------------------
(* ReadASCCDL (DraftASCCDLReader.py).  An ASC CDL file is the record of     *)
(* whether it parses as XML and, for each of the four tags, whether an      *)
(* element with the tag exists and the text of its first child (None for an *)
(* element without children).                                               *)

\* cdl.getElementsByTagName(tag)[0].firstChild.nodeValue.split(): the error
\* raised, or the list
ElementValues(cdl, tag) ==
    IF ~ cdl[tag].present THEN [err |-> "IndexError", list |-> << >>]
    ELSE IF cdl[tag].text = None THEN [err |-> "AttributeError", list |-> << >>]
    ELSE [err |-> "", list |-> PySplit(cdl[tag].text[1], << >>)]

\* list[i] = float(list[i]) for a 1-based i: the error raised, "" when none
FloatAt(list, i) ==
    IF i > Len(list) THEN "IndexError"
    ELSE IF python_float(list[i]) = None THEN "ValueError"
    ELSE ""

\* the first error in a sequence of steps, "" when none fails
RECURSIVE FirstError(_)
FirstError(errors) ==
    IF errors = << >> THEN ""
    ELSE IF Head(errors) # "" THEN Head(errors)
    ELSE FirstError(Tail(errors))

\* the list after the loop of lines 24-27: the first three elements converted,
\* the others left as they are
Converted(list) ==
    [i \in DOMAIN list |-> IF i <= 3 THEN python_float(list[i]) ELSE Some(list[i])]

\* Draft.LUT.CreateASCCDL(slope, offset, power, saturation)
CreateASCCDL(slope, offset, power, saturation) ==
    [slope |-> slope, offset |-> offset, power |-> power, saturation |-> saturation]

\* The body of the try block (lines 17-31): the error raised in it, or the LUT.
\* `accepted` tells whether Draft accepts lists of more than three elements.
ReadASCCDLBody(cdl, accepted) ==
    LET slope == ElementValues(cdl, "Slope")
        offset == ElementValues(cdl, "Offset")
        power == ElementValues(cdl, "Power")
        saturation == ElementValues(cdl, "Saturation")
        lists == << slope.list, offset.list, power.list >>
        err == FirstError(
                   << IF cdl.parses THEN "" ELSE "ExpatError",
                      slope.err, offset.err, power.err, saturation.err >>
                   \o [k \in 1..9 |-> FloatAt(lists[((k - 1) % 3) + 1],
                                               ((k - 1) \div 3) + 1)]
                   \o << FloatAt(saturation.list, 1),
                         IF accepted \/ \A k \in 1..3 : Len(lists[k]) <= 3
                         THEN "" ELSE "DraftError" >>)
    IN  IF err # "" THEN [err |-> err, lut |-> None]
        ELSE [err |-> "",
              lut |-> Some(CreateASCCDL(Converted(slope.list), Converted(offset.list),
                                        Converted(power.list),
                                        python_float(saturation.list[1])))]

CDLWarnMsg == "WARNING:  unable to process requested ASC CDL file, continuing without one.  Error message: "

\* a mistaken ReadASCCDL: only ValueError is caught
ReadASCCDL_only_ValueError(cdl, raiseExceptionOnError, accepted) ==
    LET body == ReadASCCDLBody(cdl, accepted)
    IN  IF body.err # "" /\ (raiseExceptionOnError \/ body.err # "ValueError")
        THEN [err |-> body.err, warned |-> FALSE, lut |-> None]
        ELSE [err |-> "", warned |-> body.err # "", lut |-> body.lut]

\* ReadASCCDL(filename, raiseExceptionOnError): the error raised, whether the
\* warning is printed, and the value returned
ReadASCCDL(cdl, raiseExceptionOnError, accepted) ==
    LET body == ReadASCCDLBody(cdl, accepted)
    IN  IF body.err # "" /\ raiseExceptionOnError
        THEN [err |-> body.err, warned |-> FALSE, lut |-> None]
        ELSE [err |-> "", warned |-> body.err # "", lut |-> body.lut]

\* Values of an ASC CDL file, each with the number it spells (the signed
\* number of its digits and the count of digits behind the dot), None when it
\* spells none.
CDLValues ==
    { [text |-> << "1" >>, value |-> Some([num |-> 1, scale |-> 0])],
      [text |-> << "1", ".", "5" >>, value |-> Some([num |-> 15, scale |-> 1])],
      [text |-> << "-", "0", ".", "2", "5" >>, value |-> Some([num |-> -25, scale |-> 2])],
      [text |-> << "a" >>, value |-> None] }

\* the text of a list of values, one blank between two, a line end behind
RECURSIVE JoinValues(_)
JoinValues(values) ==
    IF values = << >> THEN << "\n" >>
    ELSE << " " >> \o Head(values).text \o JoinValues(Tail(values))

CDLElement(present, values) ==
    [present |-> present, values |-> values,
     text |-> IF values = << >> THEN None ELSE Some(JoinValues(values))]

\* three values of a tag, the second one any value
ThreeValues ==
    { << [text |-> << "1" >>, value |-> Some([num |-> 1, scale |-> 0])], v,
         [text |-> << "1", ".", "5" >>, value |-> Some([num |-> 15, scale |-> 1])] >> :
        v \in CDLValues }

\* the elements of a tag: none, one without text, one of blanks only, or one
\* with two, three or four values
CDLElements ==
    { CDLElement(FALSE, << >>), CDLElement(TRUE, << >>),
      [present |-> TRUE, values |-> << >>, text |-> Some(<< " ", "\n" >>)] }
    \cup { CDLElement(TRUE, vs) : vs \in ThreeValues }
    \cup { CDLElement(TRUE, SubSeq(vs, 1, 2)) : vs \in ThreeValues }
    \cup { CDLElement(TRUE, vs \o << vs[2] >>) : vs \in ThreeValues }

\* the elements of the Saturation tag: none, one without text, or one with
\* one or two values
SaturationElements ==
    { CDLElement(FALSE, << >>), CDLElement(TRUE, << >>) }
    \cup { CDLElement(TRUE, << v >>) : v \in CDLValues }
    \cup { CDLElement(TRUE, << v, w >>) : v, w \in CDLValues }

GoodElement ==
    CDLElement(TRUE, CHOOSE vs \in ThreeValues : vs[2].text = << "1" >>)

\* the ASC CDL files: any element for one of Slope, Offset and Power, a good
\* one for the two others; any Saturation; a file that is no XML
CDLFiles ==
    { [parses |-> p, Slope |-> e[1], Offset |-> e[2], Power |-> e[3],
       Saturation |-> sat] :
        p \in BOOLEAN,
        e \in { << x, GoodElement, GoodElement >> : x \in CDLElements }
                \cup { << GoodElement, x, GoodElement >> : x \in CDLElements }
                \cup { << GoodElement, GoodElement, x >> : x \in CDLElements },
        sat \in SaturationElements }

----------------------------------------------------------------------------
(* ParseParamFile and ParseCommandLine (DraftParamParser.py).  A dictionary *)
(* is a function from its keys; a parsed value is a record of its kind      *)
(* ("str", "int", "float" or "list") and, by the kind, its text, its number *)
(* or its items.                                                            *)

StrValue(text) ==
    [kind |-> "str", num |-> 0, scale |-> 0, text |-> text, items |-> << >>]
IntValue(n) ==
    [kind |-> "int", num |-> n, scale |-> 0, text |-> << >>, items |-> << >>]
FloatValue(f) ==
    [kind |-> "float", num |-> f.num, scale |-> f.scale, text |-> << >>, items |-> << >>]
ListValue(items) ==
    [kind |-> "list", num |-> 0, scale |-> 0, text |-> << >>, items |-> items]

\* the names of the types, and the key 'paramFile'
Word ==
    [string |-> << "<", "s", "t", "r", "i", "n", "g", ">" >>,
     int |-> << "<", "i", "n", "t", ">" >>,
     float |-> << "<", "f", "l", "o", "a", "t", ">" >>,
     paramFile |-> << "p", "a", "r", "a", "m", "F", "i", "l", "e" >>]

\* d[key] = value
Put(d, key, value) ==
    [k \in DOMAIN d \cup {key} |-> IF k = key THEN value ELSE d[k]]

\* The loop of TokenizeTupleString from the (1-based) position i on, with the
\* (1-based) position of the last comma, 0 when there was none yet
RECURSIVE TokenizeFrom(_, _, _, _)
TokenizeFrom(strTuple, i, stackCounter, lastComma) ==
    IF i > Len(strTuple) THEN << SubSeq(strTuple, lastComma + 1, Len(strTuple)) >>
    ELSE IF strTuple[i] = "(" THEN TokenizeFrom(strTuple, i + 1, stackCounter + 1, lastComma)
    ELSE IF strTuple[i] = ")" THEN TokenizeFrom(strTuple, i + 1, stackCounter - 1, lastComma)
    ELSE IF strTuple[i] = "," /\ stackCounter = 0
    THEN << SubSeq(strTuple, lastComma + 1, i - 1) >>
         \o TokenizeFrom(strTuple, i + 1, stackCounter, i)
    ELSE TokenizeFrom(strTuple, i + 1, stackCounter, lastComma)

TokenizeTupleString(strTuple) == TokenizeFrom(strTuple, 1, 0, 0)

CastError(err) == [err |-> err, value |-> StrValue(<< >>)]
CastValue(value) == [err |-> "", value |-> value]

\* a mistaken TypeCastArg: the lengths of the two lists are not compared, the
\* values without a type are dropped
RECURSIVE TypeCastArg_any_length(_, _)
TypeCastArg_any_length(expectedType, arg) ==
    LET a == Strip(arg)
    IN  IF expectedType = Word.string THEN CastValue(StrValue(a))
        ELSE IF expectedType = Word.int
        THEN IF python_int(a) = None THEN CastError("ValueError")
             ELSE CastValue(IntValue(python_int(a)[1]))
        ELSE IF expectedType = Word.float
        THEN IF python_float(a) = None THEN CastError("ValueError")
             ELSE CastValue(FloatValue(python_float(a)[1]))
        ELSE IF expectedType = << >> THEN CastError("IndexError")
        ELSE IF expectedType[1] = "(" /\ expectedType[Len(expectedType)] = ")"
        THEN IF a = << >> THEN CastError("IndexError")
             ELSE IF ~ (a[1] = "(" /\ a[Len(a)] = ")") THEN CastError("StandardError")
             ELSE LET expectedTypeList ==
                          TokenizeTupleString(SubSeq(expectedType, 2, Len(expectedType) - 1))
                      argList == TokenizeTupleString(SubSeq(a, 2, Len(a) - 1))
                      n == IF Len(argList) < Len(expectedTypeList)
                           THEN Len(argList) ELSE Len(expectedTypeList)
                      casts == [i \in 1..n |->
                                   TypeCastArg_any_length(expectedTypeList[i], argList[i])]
                  IN  IF \E i \in 1..n : casts[i].err # ""
                      THEN CastError(casts[CHOOSE i \in 1..n :
                                               /\ casts[i].err # ""
                                               /\ \A j \in 1..(i - 1) : casts[j].err = ""].err)
                      ELSE CastValue(ListValue([i \in 1..n |-> casts[i].value]))
        ELSE CastError("StandardError")

\* TypeCastArg(expectedType, arg): the error raised, or the value
RECURSIVE TypeCastArg(_, _)
TypeCastArg(expectedType, arg) ==
    LET a == Strip(arg)
    IN  IF expectedType = Word.string THEN CastValue(StrValue(a))
        ELSE IF expectedType = Word.int
        THEN IF python_int(a) = None THEN CastError("ValueError")
             ELSE CastValue(IntValue(python_int(a)[1]))
        ELSE IF expectedType = Word.float
        THEN IF python_float(a) = None THEN CastError("ValueError")
             ELSE CastValue(FloatValue(python_float(a)[1]))
        ELSE IF expectedType = << >> THEN CastError("IndexError")
        ELSE IF expectedType[1] = "(" /\ expectedType[Len(expectedType)] = ")"
        THEN IF a = << >> THEN CastError("IndexError")
             ELSE IF ~ (a[1] = "(" /\ a[Len(a)] = ")") THEN CastError("StandardError")
             ELSE LET expectedTypeList ==
                          TokenizeTupleString(SubSeq(expectedType, 2, Len(expectedType) - 1))
                      argList == TokenizeTupleString(SubSeq(a, 2, Len(a) - 1))
                      n == Len(argList)
                      casts == [i \in 1..n |-> TypeCastArg(expectedTypeList[i], argList[i])]
                  IN  IF Len(expectedTypeList) # Len(argList)
                      THEN CastError("StandardError")
                      ELSE IF \E i \in 1..n : casts[i].err # ""
                      THEN CastError(casts[CHOOSE i \in 1..n :
                                               /\ casts[i].err # ""
                                               /\ \A j \in 1..(i - 1) : casts[j].err = ""].err)
                      ELSE CastValue(ListValue([i \in 1..n |-> casts[i].value]))
        ELSE CastError("StandardError")

\* ParseParams(expectedTypes, params): the errors the loop may raise (the
\* error of the first key in the order of the dictionary that is missing or
\* whose value cannot be cast, so that of any such key), and the dictionary
\* returned when there is none
ParseParams(expectedTypes, params) ==
    LET cast(key) == TypeCastArg(expectedTypes[key], params[key])
    IN  [errors |-> { IF key \notin DOMAIN params THEN "StandardError" ELSE cast(key).err :
                        key \in { k \in DOMAIN expectedTypes :
                                    k \notin DOMAIN params \/ cast(k).err # "" } },
         params |-> [key \in DOMAIN params |->
                        IF key \in DOMAIN expectedTypes
                        THEN cast(key).value ELSE StrValue(params[key])]]

\* arg.split('=', 1): no pair when there is no '='
SplitArg(arg) ==
    LET eq == Find(arg, "=", 0)
    IN  IF eq < 0 THEN None
        ELSE Some([key |-> SubSeq(arg, 1, eq), value |-> SubSeq(arg, eq + 2, Len(arg))])

\* The loop of ParseParamFile_TypeAgnostic (lines 141-157) over the lines
\* readline returns
RECURSIVE ReadArgs(_, _)
ReadArgs(lines, params) ==
    IF lines = << >> THEN [err |-> "", params |-> params]
    ELSE LET line == Head(lines)
             arg == IF line[Len(line)] = "\n" THEN SubSeq(line, 1, Len(line) - 1)
                    ELSE line
         IN  IF arg # << >> /\ arg[1] # "#"
             THEN IF SplitArg(arg) = None
                  THEN [err |-> "StandardError", params |-> params]
                  ELSE ReadArgs(Tail(lines),
                                Put(params, SplitArg(arg)[1].key, SplitArg(arg)[1].value))
             ELSE ReadArgs(Tail(lines), params)

\* ParseParamFile_TypeAgnostic(paramFile); `files` are the files that can be
\* opened, each the sequence of its lines
ParseParamFile_TypeAgnostic(paramFile, files) ==
    IF paramFile \notin DOMAIN files THEN [err |-> "IOError", params |-> << >>]
    ELSE ReadArgs(files[paramFile], << >>)

\* The loop of ParseCommandLine_TypeAgnostic (lines 166-175) from argv[i] on
\* (1-based)
RECURSIVE ArgvParams(_, _, _)
ArgvParams(argv, i, params) ==
    IF i > Len(argv) THEN [err |-> "", params |-> params]
    ELSE IF SplitArg(argv[i]) = None THEN [err |-> "StandardError", params |-> params]
    ELSE ArgvParams(argv, i + 1,
                    Put(params, SplitArg(argv[i])[1].key, SplitArg(argv[i])[1].value))

ParseCommandLine_TypeAgnostic(argv, files) ==
    LET parsed == ArgvParams(argv, 2, << >>)
    IN  IF parsed.err = "" /\ Word.paramFile \in DOMAIN parsed.params
        THEN ParseParamFile_TypeAgnostic(parsed.params[Word.paramFile], files)
        ELSE parsed

Raise(err) == [errors |-> {err}, params |-> << >>]

\* ParseParamFile(expected, paramFile)
ParseParamFile(expected, paramFile, files) ==
    LET parsed == ParseParamFile_TypeAgnostic(paramFile, files)
    IN  IF parsed.err # "" THEN Raise(parsed.err)
        ELSE ParseParams(expected, parsed.params)

\* ParseCommandLine(expected, argv)
ParseCommandLine(expected, argv, files) ==
    LET parsed == ParseCommandLine_TypeAgnostic(argv, files)
    IN  IF parsed.err # "" THEN Raise(parsed.err)
        ELSE IF Word.paramFile \in DOMAIN parsed.params
        THEN ParseParamFile(expected, parsed.params[Word.paramFile], files)
        ELSE ParseParams(expected, parsed.params)

\* The expected types and the given values as trees, from which the strings
\* handed to the parser are written.
TypeTree(kind, items) == [kind |-> kind, items |-> items]
ValueTree(kind, text, num, scale, items) ==
    [kind |-> kind, text |-> text, num |-> num, scale |-> scale, items |-> items]

\* the strings of a list with `sep` between two of them
RECURSIVE JoinWith(_, _)
JoinWith(strings, sep) ==
    IF strings = << >> THEN << >>
    ELSE IF Len(strings) = 1 THEN strings[1]
    ELSE strings[1] \o sep \o JoinWith(Tail(strings), sep)

RECURSIVE RenderType(_)
RenderType(t) ==
    IF t.kind = "tuple"
    THEN << "(" >> \o JoinWith([i \in DOMAIN t.items |-> RenderType(t.items[i])], << "," >>)
         \o << ")" >>
    ELSE Word[t.kind]

RECURSIVE RenderValue(_, _)
RenderValue(v, sep) ==
    IF v.kind = "tuple"
    THEN << "(" >> \o JoinWith([i \in DOMAIN v.items |-> RenderValue(v.items[i], sep)], sep)
         \o << ")" >>
    ELSE v.text

\* the tuples of one or two elements of a set
TuplesOver(elements) ==
    { << x >> : x \in elements } \cup { << x, y >> : x, y \in elements }

LeafTypes == { TypeTree(kind, << >>) : kind \in {"string", "int", "float"} }
FlatTypes == { TypeTree("tuple", items) : items \in TuplesOver(LeafTypes) }
NestedTypes ==
    LET str == TypeTree("string", << >>)
        int == TypeTree("int", << >>)
        float == TypeTree("float", << >>)
    IN  { TypeTree("tuple", << TypeTree("tuple", << int, float >>), str >>),
          TypeTree("tuple", << TypeTree("tuple", << str >>) >>),
          TypeTree("tuple", << int, TypeTree("tuple", << float >>) >>) }

Seven == ValueTree("int", << "7" >>, 7, 0, << >>)
Minus12 == ValueTree("int", << "-", "1", "2" >>, -12, 0, << >>)
OneAndHalf == ValueTree("float", << "1", ".", "5" >>, 15, 1, << >>)
AWord == ValueTree("word", << "a", "b" >>, 0, 0, << >>)

LeafValues == { Seven, Minus12, OneAndHalf, AWord }
FlatValues == { ValueTree("tuple", << >>, 0, 0, items) : items \in TuplesOver(LeafValues) }
NestedValues ==
    { ValueTree("tuple", << >>, 0, 0, items) :
        items \in TuplesOver({ Seven, OneAndHalf, AWord }
                             \cup { ValueTree("tuple", << >>, 0, 0, inner) :
                                      inner \in TuplesOver({ Seven, OneAndHalf }) }) }

\* the separators of the elements of a tuple
ValueSeparators == { << "," >>, << ",", " " >> }

\* the pairs of an expected type and a given value
TypedValues ==
    (LeafTypes \X LeafValues)
    \cup (FlatTypes \X (LeafValues \cup FlatValues))
    \cup (NestedTypes \X NestedValues)

KeyA == << "a" >>
KeyB == << "b" >>
KeyC == << "c" >>
FileF == << "f" >>
FileG == << "g" >>

ArgOf(key, text) == key \o << "=" >> \o text
LineOf(key, text) == ArgOf(key, text) \o << "\n" >>

\* What a call is about: the function called, the expected types and the
\* given values by key as trees, and the strings written from them: the
\* dictionary of expected types, the parameter file's name or the command
\* line, and the files that exist.
ParseCase(function, expected, given, sep, paramFile, argv, lines) ==
    [function |-> function, expected |-> expected, given |-> given, sep |-> sep,
     expectedTypes |-> [key \in DOMAIN expected |-> RenderType(expected[key])],
     paramFile |-> paramFile, argv |-> argv,
     files |-> [name \in {FileF} |-> lines]]

Script == << "s" >>
CommentLine == << "#", "a", "=", "7", "\n" >>
BlankLine == << "\n" >>

ParseCasesOf(t, v, sep) ==
    LET text == RenderValue(v, sep)
        int == TypeTree("int", << >>)
        only_a == Put(<< >>, KeyA, t)
        a_and_b == Put(only_a, KeyB, int)
        given_a == Put(<< >>, KeyA, v)
        given_ab == Put(given_a, KeyB, Seven)
        given_ac == Put(given_a, KeyC, AWord)
        file_a == << CommentLine, BlankLine, LineOf(KeyA, text) >>
        file_ab == << LineOf(KeyA, text), ArgOf(KeyB, << " ", "7" >>) >>
        file_ac == << LineOf(KeyC, AWord.text), LineOf(KeyA, text) >>
    IN  { ParseCase("ParseParamFile", only_a, given_a, sep, FileF, << >>, file_a),
          ParseCase("ParseParamFile", a_and_b, given_a, sep, FileF, << >>, file_a),
          ParseCase("ParseParamFile", a_and_b, given_ab, sep, FileF, << >>, file_ab),
          ParseCase("ParseParamFile", only_a, given_ac, sep, FileF, << >>, file_ac),
          ParseCase("ParseCommandLine", only_a, given_a, sep, << >>,
                    << Script, ArgOf(KeyA, text) >>, file_ab),
          ParseCase("ParseCommandLine", a_and_b, given_a, sep, << >>,
                    << Script, ArgOf(KeyA, text) >>, file_ab),
          ParseCase("ParseCommandLine", a_and_b, given_ab, sep, << >>,
                    << Script, ArgOf(KeyB, << "7" >>), ArgOf(Word.paramFile, FileF) >>,
                    file_ab) }

\* a file that cannot be opened, a line and an argument without '=', a
\* command line without arguments
BrokenCases ==
    LET int == TypeTree("int", << >>)
        only_a == Put(<< >>, KeyA, int)
        given_a == Put(<< >>, KeyA, Seven)
        line_a == LineOf(KeyA, Seven.text)
    IN  { ParseCase("ParseParamFile", only_a, << >>, << "," >>, FileG, << >>,
                    << line_a >>),
          ParseCase("ParseParamFile", only_a, given_a, << "," >>, FileF, << >>,
                    << line_a, << "b", "\n" >> >>),
          ParseCase("ParseCommandLine", only_a, << >>, << "," >>, << >>,
                    << Script, ArgOf(Word.paramFile, FileG) >>, << line_a >>),
          ParseCase("ParseCommandLine", only_a, given_a, << "," >>, << >>,
                    << Script, ArgOf(KeyA, Seven.text), << "b" >> >>, << line_a >>),
          ParseCase("ParseCommandLine", only_a, << >>, << "," >>, << >>,
                    << Script >>, << line_a >>),
          ParseCase("ParseCommandLine", << >>, << >>, << "," >>, << >>,
                    << Script >>, << line_a >>) }

ParseCases ==
    BrokenCases
    \cup UNION { ParseCasesOf(p[1], p[2], sep) : p \in TypedValues, sep \in ValueSeparators }

----------------------------------------------------------------------------
(* FrameRangeToFrames (DraftParamParser.py).                                *)

\* re.split('\s+|,+', frameString): `cur` is the token being read, `prev` the
\* kind of separator run the scan is in ("" when in none)
RECURSIVE ReSplit(_, _, _)
ReSplit(s, cur, prev) ==
    IF s = << >> THEN << cur >>
    ELSE LET c == Head(s)
             kind == IF IsSpace(c) THEN " " ELSE IF c = "," THEN "," ELSE ""
         IN  IF kind = "" THEN ReSplit(Tail(s), Append(cur, c), "")
             ELSE IF kind = prev THEN ReSplit(Tail(s), cur, prev)
             ELSE << cur >> \o ReSplit(Tail(s), << >>, kind)

\* the alternation (x|step|by|every), in its order
StepWords == << << "x" >>, << "s", "t", "e", "p" >>, << "b", "y" >>, << "e", "v", "e", "r", "y" >> >>

\* re.match("(-?\d+)(?:(x|step|by|every)(\d+))?", s): None when there is no
\* match, else the groups; group 2 and 3 are None when the optional part does
\* not match.  The match is not anchored at the end of s.
FrameRegexMatch(s) ==
    LET first == IF s # << >> /\ s[1] = "-" THEN 2 ELSE 1
        n == DigitRun(s, first)
        after == first + n
        words == { i \in DOMAIN StepWords :
                     /\ StartsWith(s, after, StepWords[i])
                     /\ DigitRun(s, after + Len(StepWords[i])) > 0 }
        w == CHOOSE i \in words : \A j \in words : i <= j
    IN  IF n = 0 THEN None
        ELSE IF words = {}
        THEN Some([group1 |-> SubSeq(s, 1, after - 1), group2 |-> None,
                   group3 |-> None])
        ELSE Some([group1 |-> SubSeq(s, 1, after - 1),
                   group2 |-> Some(StepWords[w]),
                   group3 |-> Some(SubSeq(s, after + Len(StepWords[w]),
                                          after + Len(StepWords[w])
                                            + DigitRun(s, after + Len(StepWords[w])) - 1))])

\* the while loop of lines 246-249 for byFrame > 0
RECURSIVE StepFrames(_, _, _, _)
StepFrames(frame, endFrame, byFrame, dir) ==
    IF frame * dir <= endFrame * dir
    THEN {frame} \cup StepFrames(frame + byFrame * dir, endFrame, byFrame, dir)
    ELSE {}

TokenResult(err, frames) == [err |-> err, frames |-> frames]

\* The body of the loop over the tokens (lines 224-249): the frames the token
\* adds, or the error it raises.  With byFrame = 0 the while loop appends
\* without end until the list exhausts the memory.
TokenFrames(token) ==
    LET dashIndex == Find(token, "-", 1)
        startFrame == python_int(IF dashIndex = -1 THEN token
                                 ELSE SubSeq(token, 1, dashIndex))
        m == FrameRegexMatch(SubSeq(token, dashIndex + 2, Len(token)))
        endFrame == python_int(m[1].group1)[1]
        byFrame == python_int(m[1].group3[1])[1]
        dir == IF startFrame[1] > endFrame THEN -1 ELSE 1
    IN  IF token = << >> THEN TokenResult("", {})
        ELSE IF startFrame = None THEN TokenResult("ValueError", {})
        ELSE IF dashIndex = -1 THEN TokenResult("", { startFrame[1] })
        ELSE IF m = None THEN TokenResult("StandardError", {})
        ELSE IF m[1].group2 = None
        THEN TokenResult("", startFrame[1]..endFrame)
        ELSE IF byFrame = 0 THEN TokenResult("MemoryError", {})
        ELSE TokenResult("", StepFrames(startFrame[1], endFrame, byFrame, dir))

FrameTokenMsg == "ERROR: Frame Range token '%s' is malformed. Skipping this token."

\* the loop over the tokens: the frames collected, or the first error
RECURSIVE FramesOfTokens(_)
FramesOfTokens(tokens) ==
    IF tokens = << >> THEN [err |-> "", token |-> << >>, frames |-> {}]
    ELSE LET first == TokenFrames(Head(tokens))
             rest == FramesOfTokens(Tail(tokens))
         IN  IF first.err # ""
             THEN [err |-> first.err, token |-> Head(tokens), frames |-> {}]
             ELSE IF rest.err # "" THEN rest
             ELSE [err |-> "", token |-> << >>, frames |-> first.frames \cup rest.frames]

\* FrameRangeToFrames(frameString): the error raised and the token printed
\* with it, or the sorted list of frames without duplicates
FrameRangeToFrames(frameString) ==
    LET result == FramesOfTokens(ReSplit(frameString, << >>, ""))
    IN  [err |-> result.err, token |-> result.token,
         frames |-> SortedFrames(result.frames)]

\* largest frame number of a frame range string, ten apart
MaxFrameNumber == 3

\* A token of a frame range string as it is meant: a frame, a range, a range
\* with a step, or a text that is none of these.
FrameToken(kind, a, b, word, n, text) ==
    [kind |-> kind, a |-> a, b |-> b, word |-> word, n |-> n, text |-> text]

\* the text of a token
RenderToken(t) ==
    CASE t.kind = "frame" -> RenderInt(t.a)
      [] t.kind = "range" -> RenderInt(t.a) \o << "-" >> \o RenderInt(t.b)
      [] t.kind = "step" ->
            RenderInt(t.a) \o << "-" >> \o RenderInt(t.b) \o t.word \o RenderNat(t.n)
      [] t.kind = "text" -> t.text

\* texts that are no frame, range or range with a step
MalformedTexts ==
    { << "a" >>, << "-" >>, << "1", "-" >>, << "1", "-", "a" >>, << "a", "-", "2" >>,
      << "1", "x", "2" >>, << "1", "-", "2", "a" >>, << "1", "-", "2", "x" >>,
      << "1", "-", "2", "-", "3" >>, << "1", "-", "2", "y", "2" >> }

FrameTokens ==
    { FrameToken("frame", a, 0, << >>, 0, << >>) :
        a \in (-1..MaxFrameNumber) \cup {10} }
    \cup { FrameToken("range", r[1], r[2], << >>, 0, << >>) :
             r \in { q \in (({-1} \cup (1..MaxFrameNumber))
                               \X ((1..MaxFrameNumber) \cup {10})) : q[1] <= q[2] } }
    \cup { FrameToken("step", a, b, StepWords[w], n, << >>) :
             a \in 1..MaxFrameNumber, b \in (1..MaxFrameNumber) \cup {10},
             w \in DOMAIN StepWords, n \in 0..MaxFrameNumber }
    \cup { FrameToken("text", 0, 0, << >>, 0, text) : text \in MalformedTexts }

\* what stands between two tokens
TokenSeparators == { << "," >>, << " " >>, << ",", " " >>, << " ", " " >> }

\* the frame range strings handed to FrameRangeToFrames, each with the tokens
\* it is made of: one token, possibly between blanks, or a frame or a range
\* followed by any token
FrameStrings ==
    { [frameString |-> RenderToken(t), tokens |-> << t >>] : t \in FrameTokens }
    \cup { [frameString |-> << " " >> \o RenderToken(t) \o << ",", " " >>,
            tokens |-> << t >>] : t \in FrameTokens }
    \cup { [frameString |-> RenderToken(h) \o sep \o RenderToken(t),
            tokens |-> << h, t >>] :
             h \in { FrameToken("frame", 2, 0, << >>, 0, << >>),
                     FrameToken("range", 1, 2, << >>, 0, << >>) },
             sep \in TokenSeparators, t \in FrameTokens }

----------------------------------------------------------------------------
(* The application (app.py).                                                *)

\* most publish managers created in one run
MaxManagers == 3

AppName == "tk-multi-r8spublish"

MenuCaption == "R8S Publish"

\* the application instance before init_app, in an engine with the commands
\* `commands`, whose import_module gives a module with the class `class`
NewApp(commands, class) ==
    [state |-> "created",
     module |-> [PublishManager |-> class, util |-> "util",
                 base_hooks |-> "base_hooks"],
     manager_class |-> None, util |-> None, base_hooks |-> None,
     engine |-> [commands |-> commands],
     managers |-> << >>]

\* no application takes part
NoApp == NewApp(<< >>, "PublishManager")

\* no item takes part
NoItem ==
    MkItem(WorkPath(None, "scene", NoVersion, Lit.ma, NoFrame), None,
           NoProperties, NoLocalProperties, None)

\* engine.register_command(name, callback) on behalf of the app `owner`
register_command(commands, name, owner) ==
    Append(commands, [name |-> name, app |-> owner])

\* a mistaken create_publish_manager: one manager is created and handed out
\* again on every later call
new_manager_cached(a) ==
    IF a.managers = << >>
    THEN [class |-> a.manager_class[1], id |-> 1]
    ELSE a.managers[1]

\* self._manager_class(): a new instance of the captured class
new_manager(a) == [class |-> a.manager_class[1], id |-> Len(a.managers) + 1]

\* the property context_change_allowed (lines 98-103)
context_change_allowed == TRUE

\* the commands other applications registered with the engine
OtherCommands ==
    { << >>, << [name |-> "File Open...", app |-> "tk-multi-workfiles2"] >>,
      << [name |-> MenuCaption, app |-> "tk-multi-publish2"] >> }

\* the manager classes the bundled tk_multi_publish2 module may expose
ManagerClasses == {"PublishManager", "SitePublishManager"}

----------------------------------------------------------------------------
(* State.                                                                   *)

VARIABLES
    item,        \* the item being published
    settings,    \* the plugin's settings: setting name -> value
    pc,          \* the phase the host has reached for the item
    ret,         \* the value the last call returned (optional)
    raised,      \* the exception the last call raised, NoError when none
    log,         \* the errors and warnings sent to the logger
    queried,     \* the call of get_conflicting_publishes (optional)
    registered,  \* the call of register_publish (optional)
    folders,     \* the folders ensure_folder_exists was called for
    copied,      \* the copy_file calls that were made, in order
    cleared,     \* the call of clear_status_for_conflicting_publishes (optional)
    args,        \* the path a helper method was called with and what is on disk
    saved,       \* the save_callback calls that were made, in order
    app          \* the application instance and the engine it runs in

vars == << item, settings, pc, ret, raised, log, queried, registered, folders, copied,
          cleared, args, saved, app >>

Init ==
    /\ item \in Items
    /\ settings = DefaultSettings
    /\ pc = "collected"
    /\ ret = None
    /\ raised = NoError
    /\ log = {}
    /\ queried = None
    /\ registered = None
    /\ folders = {}
    /\ copied = << >>
    /\ cleared = None
    /\ args = None
    /\ saved = << >>
    /\ app = NoApp

----------------------------------------------------------------------------
(* The phases of the plugin.                                                *)

\* accept (lines 324-343): stores the publish version, and the texture
\* variation when there is one, in the settings
accept ==
    /\ pc = "collected"
    /\ settings' =
         [settings EXCEPT
            !["Publish Version"] = get_publish_version(settings, item),
            !["Export Name"] = IF TruthyStr(item.properties.tex_variation)
                               THEN item.properties.tex_variation[1] ELSE @]
    /\ pc' = "accepted"
    /\ ret' = Some([accepted |-> TRUE])
    /\ UNCHANGED << item, raised, log, queried, registered, folders, copied, cleared,
                    args, saved,
                    app >>

\* get_ui_settings (lines 154-159): the values typed into the widget replace
\* the two settings of an item that waits to be published
get_ui_settings ==
    /\ pc = "validated"
    /\ \E name \in ExportNames, version \in 0..MaxVersion :
         settings' = [settings EXCEPT !["Export Name"] = name,
                                      !["Publish Version"] = Some(version)]
    /\ UNCHANGED << item, pc, ret, raised, log, queried, registered, folders, copied,
                    cleared, args, saved,
                    app >>

\* validate (lines 359-433)
validate ==
    /\ pc = "accepted"
    /\ \E publishes \in ConflictLists :
         \E err \in { get_publish_path_error(settings, item) } :
         \E publish_info \in { IF err = "" THEN internal_get_publish_path(settings, item)
                                ELSE << >> } :
             IF err # ""
             THEN /\ raised' = Error(err, "", << >>)
                  /\ pc' = "validate_raised"
                  /\ ret' = None
                  /\ UNCHANGED << log, queried >>
             ELSE /\ queried' = Some([context |-> item.context,
                                      path |-> publish_info[2],
                                      name |-> publish_info[1],
                                      settings |-> settings,
                                      result |-> publishes])
                  /\ IF item.context.entity = None
                     THEN /\ log' = log \cup {LogRecord("error", LinkMsg, << >>)}
                          /\ raised' = Error("Exception", LinkMsg, << >>)
                          /\ pc' = "validate_raised"
                          /\ ret' = None
                     ELSE IF publishes # << >> /\ TemplatesInPlay(settings, item)
                     THEN /\ log' = log \cup {LogRecord("error", ConflictMsg, << >>)}
                          /\ raised' = Error("Exception", ConflictMsg, << >>)
                          /\ pc' = "validate_raised"
                          /\ ret' = None
                     ELSE /\ log' = IF publishes # << >>
                                    THEN log \cup {LogRecord("warning", WarnMsg, publishes)}
                                    ELSE log
                          /\ raised' = NoError
                          /\ pc' = "validated"
                          /\ ret' = Some(TRUE)
    /\ UNCHANGED << item, settings, registered, folders, copied, cleared, args, saved,
                    app >>

\* What publish does once _get_publish_path has returned publish_info, the
\* texture test is known, and the item after line 506 (item1) and after line
\* 523 (item2), the copies of lines 455-500 and of _copy_work_to_publish and
\* the warnings _copy_work_to_publish logs when no copy fails (work_log), and
\* the arguments of register_publish are computed.
PublishOutcome(publish_info, item2, copies, work_copies, work_log, data) ==
    \E fail \in 0..(Len(copies) + Len(work_copies) + 1) :
       IF fail \in 1..Len(copies)
       THEN /\ folders' = folders \cup { dirname(publish_info[2]) }
            /\ copied' = copied \o Calls(copies, fail)
            /\ raised' = Error("Exception", CopyMsg,
                               << item.properties.path[1], dirname(publish_info[2]) >>)
            /\ pc' = "publish_raised"
            /\ UNCHANGED << item, registered, log >>
       ELSE IF fail \in (Len(copies) + 1)..(Len(copies) + Len(work_copies))
       THEN /\ folders' = folders \cup { dirname(publish_info[2]) }
                              \cup Folders(Calls(work_copies, fail - Len(copies)))
            /\ copied' = copied \o Calls(copies, 0)
                           \o Calls(work_copies, fail - Len(copies))
            /\ item' = item2
            /\ raised' = Error("Exception", WorkCopyMsg,
                               << work_copies[fail - Len(copies)].src,
                                  work_copies[fail - Len(copies)].dst >>)
            /\ pc' = "publish_raised"
            /\ UNCHANGED << registered, log >>
       ELSE IF fail = Len(copies) + Len(work_copies) + 1
       THEN /\ folders' = folders \cup { dirname(publish_info[2]) }
                              \cup Folders(work_copies)
            /\ copied' = copied \o Calls(copies, 0) \o Calls(work_copies, 0)
            /\ item' = item2
            /\ raised' = Error("ShotgunPublishError", "", << >>)
            /\ pc' = "publish_raised"
            /\ log' = log \cup work_log
            /\ UNCHANGED registered
       ELSE /\ folders' = folders \cup { dirname(publish_info[2]) }
                              \cup Folders(work_copies)
            /\ copied' = copied \o Calls(copies, 0) \o Calls(work_copies, 0)
            /\ registered' = Some(data)
            /\ item' = [item2 EXCEPT !.properties.sg_publish_data =
                                         Some(register_publish(data))]
            /\ raised' = NoError
            /\ log' = log \cup work_log
            /\ pc' = "published"

\* publish (lines 445-558).  `frames` are the frames the glob finds on disk,
\* `old` the frames already present at the publish location, and in
\* PublishOutcome `fail` is the number of the copy_file or register_publish
\* call that raises (0: none does).
publish ==
    /\ pc = "validated"
    /\ \E frames \in FramesOnDisk(item) : \E old \in SUBSET frames :
         IF get_publish_path_error(settings, item) # ""
         THEN /\ raised' = Error(get_publish_path_error(settings, item), "", << >>)
              /\ pc' = "publish_raised"
              /\ UNCHANGED << item, registered, folders, copied, log >>
         ELSE \E publish_info \in { internal_get_publish_path(settings, item) } :
              \E texture \in { Contains(get_publish_type(settings, item)[1],
                                        Lit.TextureFolder) } :
              \E item1 \in { WithPath(item, IF texture THEN dirname(publish_info[2])
                                            ELSE publish_info[2]) } :
              \E item2 \in { WithParentDependency(item1) } :
                IF FormatFails(settings, item, publish_info[2], frames)
                THEN /\ raised' = Error("Exception", CopyMsg,
                                        << item.properties.path[1],
                                           dirname(publish_info[2]) >>)
                     /\ pc' = "publish_raised"
                     /\ folders' = folders \cup { dirname(publish_info[2]) }
                     /\ UNCHANGED << item, registered, copied, log >>
                ELSE \E copies \in { PublishCopies(settings, item, publish_info[2], frames,
                                         { FrameOf(publish_info[2], n) : n \in old }
                                         \cup { TextureIn(publish_info[2], n) : n \in old }) } :
                     \E work_copies \in { copy_work_to_publish(settings, item2) } :
                     \E work_log \in { copy_work_log(settings, item2) } :
                     \E data \in { publish_data(settings, item1, publish_info[1]) } :
                        PublishOutcome(publish_info, item2, copies, work_copies,
                                       work_log, data)
    /\ ret' = None
    /\ UNCHANGED << settings, queried, cleared, args, saved,
                    app >>

\* finalize (lines 583-605), after a publish that registered or one that
\* raised: item.properties.sg_publish_data (line 586) raises AttributeError
\* when publish has not stored it
finalize ==
    /\ pc \in {"published", "publish_raised"}
    /\ IF HasKey(item.properties, "sg_publish_data")
       THEN /\ cleared' = Some(clear_status_arguments(item))
            /\ raised' = NoError
            /\ pc' = "finalized"
       ELSE /\ raised' = Error("AttributeError", "", << >>)
            /\ pc' = "finalize_raised"
            /\ UNCHANGED cleared
    /\ ret' = None
    /\ UNCHANGED << item, settings, log, queried, registered, folders, copied,
                    args, saved,
                    app >>

Next == accept \/ get_ui_settings \/ validate \/ publish \/ finalize

Spec == Init /\ [][Next]_vars

----------------------------------------------------------------------------
(* The getters called on their own, as a subclass or another plugin may.    *)

InitGetters ==
    /\ item \in GetterItems
    /\ settings \in GetterSettings
    /\ pc = "ready"
    /\ ret = None
    /\ raised = NoError
    /\ log = {}
    /\ queried = None
    /\ registered = None
    /\ folders = {}
    /\ copied = << >>
    /\ cleared = None
    /\ args = None
    /\ saved = << >>
    /\ app = NoApp

Return(name, value) ==
    /\ pc = "ready"
    /\ pc' = name
    /\ ret' = Some(value)
    /\ UNCHANGED << item, settings, raised, log, queried, registered, folders, copied,
                    cleared, args, saved,
                    app >>

call_get_publish_type == Return("get_publish_type", get_publish_type(settings, item))

call_get_publish_path == Return("get_publish_path", get_publish_path(settings, item))

call_get_publish_version ==
    Return("get_publish_version", get_publish_version(settings, item))

call_get_publish_name == Return("get_publish_name", get_publish_name(settings, item))

call_get_publish_dependencies ==
    Return("get_publish_dependencies", get_publish_dependencies(settings, item))

NextGetters ==
    \/ call_get_publish_type
    \/ call_get_publish_path
    \/ call_get_publish_version
    \/ call_get_publish_name
    \/ call_get_publish_dependencies

SpecGetters == InitGetters /\ [][NextGetters]_vars

----------------------------------------------------------------------------
(* The helper methods called on their own, as publish or a subclass does.   *)

InitHelpers ==
    /\ item \in HelperItems
    /\ settings = DefaultSettings
    /\ pc = "ready"
    /\ ret = None
    /\ raised = NoError
    /\ log = {}
    /\ queried = None
    /\ registered = None
    /\ folders = {}
    /\ copied = << >>
    /\ cleared = None
    /\ args = None
    /\ saved = << >>
    /\ app = NoApp

\* _copy_work_to_publish (lines 873-943); `fail` is the number of the copy_file
\* call that raises (0: none does)
call_copy_work_to_publish ==
    /\ pc = "ready"
    /\ \E work_copies \in { copy_work_to_publish(settings, item) } :
       \E fail \in 0..Len(work_copies) :
         /\ copied' = Calls(work_copies, fail)
         /\ folders' = Folders(Calls(work_copies, fail))
         /\ IF fail = 0
            THEN /\ log' = copy_work_log(settings, item)
                 /\ raised' = NoError
                 /\ pc' = "copy_work_to_publish"
            ELSE /\ log' = log
                 /\ raised' = Error("Exception", WorkCopyMsg,
                                    << work_copies[fail].src, work_copies[fail].dst >>)
                 /\ pc' = "copy_work_to_publish_raised"
    /\ ret' = None
    /\ UNCHANGED << item, settings, queried, registered, cleared, args, saved,
                    app >>

\* _get_next_version_info (lines 961-995)
call_get_next_version_info ==
    /\ pc = "ready"
    /\ \E path \in HelperPaths :
         /\ args' = Some([path |-> path, exists |-> FALSE])
         /\ ret' = Some(get_next_version_info(path, item))
    /\ pc' = "get_next_version_info"
    /\ UNCHANGED << item, settings, raised, log, queried, registered, folders, copied,
                    cleared, saved, app >>

\* _save_to_next_version (lines 1016-1047)
call_save_to_next_version ==
    /\ pc = "ready"
    /\ \E path \in HelperPaths, exists \in BOOLEAN :
       \E result \in { save_to_next_version(path, item, exists) } :
         /\ args' = Some([path |-> path, exists |-> exists])
         /\ ret' = Some(result.ret)
         /\ saved' = saved \o result.saved
         /\ log' = log \cup result.log
    /\ pc' = "save_to_next_version"
    /\ UNCHANGED << item, settings, raised, queried, registered, folders, copied,
                    cleared, app >>

NextHelpers ==
    \/ call_copy_work_to_publish
    \/ call_get_next_version_info
    \/ call_save_to_next_version

SpecHelpers == InitHelpers /\ [][NextHelpers]_vars

----------------------------------------------------------------------------
(* The application's life in its engine.                                    *)

InitApp ==
    /\ item = NoItem
    /\ settings = DefaultSettings
    /\ pc = "created"
    /\ ret = None
    /\ raised = NoError
    /\ log = {}
    /\ queried = None
    /\ registered = None
    /\ folders = {}
    /\ copied = << >>
    /\ cleared = None
    /\ args = None
    /\ saved = << >>
    /\ app \in { NewApp(commands, class) :
                    commands \in OtherCommands, class \in ManagerClasses }

AppFrame ==
    UNCHANGED << item, settings, log, queried, registered, folders, copied, cleared,
                 args, saved >>

\* init_app (lines 29-52); the engine calls it once for an application
init_app ==
    /\ app.state = "created"
    /\ app' = [app EXCEPT
                 !.state = "running",
                 !.manager_class = Some(app.module.PublishManager),
                 !.util = Some(app.module.util),
                 !.base_hooks = Some(app.module.base_hooks),
                 !.engine.commands = register_command(@, MenuCaption, AppName)]
    /\ pc' = "init_app"
    /\ ret' = None
    /\ raised' = NoError
    /\ AppFrame

\* create_publish_manager (lines 105-113); self._manager_class is not set
\* before init_app
create_publish_manager ==
    /\ Len(app.managers) < MaxManagers
    /\ IF app.manager_class = None
       THEN /\ raised' = Error("AttributeError", "", << >>)
            /\ ret' = None
            /\ pc' = "create_publish_manager_raised"
            /\ UNCHANGED app
       ELSE /\ app' = [app EXCEPT !.managers = Append(@, new_manager(app))]
            /\ ret' = Some(new_manager(app))
            /\ raised' = NoError
            /\ pc' = "create_publish_manager"
    /\ AppFrame

\* the engine or a caller reads context_change_allowed (lines 98-103)
get_context_change_allowed ==
    /\ ret' = Some(context_change_allowed)
    /\ raised' = NoError
    /\ pc' = "context_change_allowed"
    /\ UNCHANGED app
    /\ AppFrame

\* destroy_app (lines 115-119)
destroy_app ==
    /\ app.state = "running"
    /\ app' = [app EXCEPT !.state = "destroyed"]
    /\ pc' = "destroy_app"
    /\ ret' = None
    /\ raised' = NoError
    /\ AppFrame

NextApp == init_app \/ create_publish_manager \/ get_context_change_allowed \/ destroy_app

SpecApp == InitApp /\ [][NextApp]_vars

----------------------------------------------------------------------------
(* The Draft scripts, each function called on its own.                      *)

InitDraft ==
    /\ item = NoItem
    /\ settings = DefaultSettings
    /\ pc = "ready"
    /\ ret = None
    /\ raised = NoError
    /\ log = {}
    /\ queried = None
    /\ registered = None
    /\ folders = {}
    /\ copied = << >>
    /\ cleared = None
    /\ args = None
    /\ saved = << >>
    /\ app = NoApp

DraftFrame ==
    UNCHANGED << item, settings, queried, registered, folders, copied, cleared, saved,
                 app >>

\* FrameRangeToFrames (DraftParamParser.py, lines 218-261)
call_FrameRangeToFrames ==
    /\ pc = "ready"
    /\ \E input \in FrameStrings :
       \E result \in { FrameRangeToFrames(input.frameString) } :
         /\ args' = Some(input)
         /\ IF result.err = ""
            THEN /\ ret' = Some(result.frames)
                 /\ raised' = NoError
                 /\ log' = log
            ELSE /\ ret' = None
                 /\ raised' = Error(result.err, "", << >>)
                 /\ log' = log \cup { LogRecord("error", FrameTokenMsg,
                                                 << result.token >>) }
    /\ pc' = "FrameRangeToFrames"
    /\ DraftFrame

\* ReadASCCDL (DraftASCCDLReader.py, lines 4-38)
call_ReadASCCDL ==
    /\ pc = "ready"
    /\ \E cdl \in CDLFiles, raiseExceptionOnError \in BOOLEAN, accepted \in BOOLEAN :
       \E result \in { ReadASCCDL(cdl, raiseExceptionOnError, accepted) } :
         /\ args' = Some([cdl |-> cdl, raiseExceptionOnError |-> raiseExceptionOnError,
                          accepted |-> accepted])
         /\ IF result.err # ""
            THEN /\ raised' = Error(result.err, "", << >>)
                 /\ ret' = None
            ELSE /\ raised' = NoError
                 /\ ret' = Some(result.lut)
         /\ log' = IF result.warned
                   THEN log \cup { LogRecord("warning", CDLWarnMsg, << >>) }
                   ELSE log
    /\ pc' = "ReadASCCDL"
    /\ DraftFrame

\* What a call of the parser leaves: the error raised, of those the
\* dictionary's order allows, or the dictionary returned
ParseOutcome(input, result) ==
    /\ args' = Some(input)
    /\ IF result.errors # {}
       THEN /\ \E err \in result.errors : raised' = Error(err, "", << >>)
            /\ ret' = None
       ELSE /\ raised' = NoError
            /\ ret' = Some(result.params)
    /\ log' = log
    /\ pc' = input.function
    /\ DraftFrame

\* ParseParamFile (DraftParamParser.py, lines 183-186)
call_ParseParamFile ==
    /\ pc = "ready"
    /\ \E input \in { c \in ParseCases : c.function = "ParseParamFile" } :
       \E result \in { ParseParamFile(input.expectedTypes, input.paramFile, input.files) } :
         ParseOutcome(input, result)

\* ParseCommandLine (DraftParamParser.py, lines 189-197)
call_ParseCommandLine ==
    /\ pc = "ready"
    /\ \E input \in { c \in ParseCases : c.function = "ParseCommandLine" } :
       \E result \in { ParseCommandLine(input.expectedTypes, input.argv, input.files) } :
         ParseOutcome(input, result)

NextDraft ==
    \/ call_FrameRangeToFrames
    \/ call_ReadASCCDL
    \/ call_ParseParamFile
    \/ call_ParseCommandLine

SpecDraft == InitDraft /\ [][NextDraft]_vars

----------------------------------------------------------------------------
(* Properties of the getters (checked under SpecGetters).                   *)

\* the value of a property of the item: the local one when it is set (neither
\* None nor empty), else the global one when it is set, else None
SetSeqProperty(name) ==
    IF item.local_properties[name] \notin {None, Some(<< >>)}
    THEN item.local_properties[name]
    ELSE IF item.properties[name] \notin {None, Some(<< >>)}
    THEN item.properties[name]
    ELSE None

SetIntProperty(name) ==
    IF item.local_properties[name] \notin {None, Some(0)}
    THEN item.local_properties[name]
    ELSE IF item.properties[name] \notin {None, Some(0)}
    THEN item.properties[name]
    ELSE None

\* the extension of the item's path, lower-cased and without leading dots
NormalExtension == Lower(LStripDot(item.properties.path[1].ext))

\* C6: get_publish_version returns the publish_version property when it is
\* set; otherwise the version field of the work template when the path matches
\* a work template that provides one; in every other case the version number
\* of the path-info logic, 1 when the path carries none.  It never returns
\* None.
C6_VersionNeverNone ==
    pc = "get_publish_version" =>
        LET path == item.properties.path[1]
            wt == item.properties.work_template
        IN  /\ ret[1] # None
            /\ ret[1] =
                 IF SetIntProperty("publish_version") # None
                 THEN SetIntProperty("publish_version")
                 ELSE IF /\ wt # None
                         /\ template_validate(wt[1], path)
                         /\ "version" \in wt[1].keys
                 THEN Some(path.version)
                 ELSE IF path.version = NoVersion THEN Some(1) ELSE Some(path.version)

\* C8: without a publish_type property, a file whose lower-cased, dot-stripped
\* extension equals an element after the first of a "File Types" entry is
\* given the first element of the first such entry as its publish type.
C8_EveryLaterElementIsExtension ==
    (pc = "get_publish_type" /\ SetSeqProperty("publish_type") = None) =>
        LET types == settings["File Types"]
            hits == { i \in DOMAIN types :
                        InList(NormalExtension, SliceFrom(types[i], 1)) }
        IN  \A i \in hits :
                (\A j \in hits : i <= j) => ret[1][1] = types[i][1]

\* C9: get_publish_type returns the publish_type property as the type whenever
\* the property is set, whatever the extension of the path; when it is not
\* set, a path without extension gets the type "Texture Folder" and a path
\* whose extension is none of the extensions of the "File Types" entries gets
\* the capitalized extension followed by " File".
C9_PublishTypeFallbacks ==
    pc = "get_publish_type" =>
        LET types == settings["File Types"]
            listed == \E i \in DOMAIN types :
                          InList(NormalExtension, SliceFrom(types[i], 2))
        IN  IF SetSeqProperty("publish_type") # None
            THEN ret[1][1] = SetSeqProperty("publish_type")[1]
            ELSE /\ NormalExtension = << >> => ret[1][1] = Lit.TextureFolder
                 /\ (NormalExtension # << >> /\ ~ listed) =>
                        ret[1][1] = Capitalize(NormalExtension) \o Lit.FileSuffix

\* C9 witness: the three cases have happened: a set property wins over a
\* listed extension, a path without extension, and the unlisted extension
\* "xyz" that became "Xyz File".
C9_WitnessProperty ==
    /\ pc = "get_publish_type"
    /\ item.properties.publish_type = Some(Lit.CustomType)
    /\ item.local_properties.publish_type = None
    /\ item.properties.path[1].ext = Lit.MA_upper
    /\ settings["File Types"] = DefaultFileTypes
    /\ ret[1][1] = Lit.CustomType

C9_WitnessFolder ==
    /\ pc = "get_publish_type"
    /\ SetSeqProperty("publish_type") = None
    /\ item.properties.path[1].ext = << >>
    /\ ret[1][1] = Lit.TextureFolder

C9_WitnessUnlisted ==
    /\ pc = "get_publish_type"
    /\ SetSeqProperty("publish_type") = None
    /\ item.properties.path[1].ext = Lit.xyz
    /\ settings["File Types"] = DefaultFileTypes
    /\ ret[1][1] = << "X", "y", "z", " ", "F", "i", "l", "e" >>

\* C10: get_publish_dependencies returns the local publish_dependencies when
\* that is not None (an empty list included), else the global
\* publish_dependencies when that is not None, else an empty list.
C10_DependenciesFallback ==
    pc = "get_publish_dependencies" =>
        ret[1] = IF item.local_properties.publish_dependencies # None
                 THEN item.local_properties.publish_dependencies[1]
                 ELSE IF item.properties.publish_dependencies # None
                 THEN item.properties.publish_dependencies[1]
                 ELSE << >>

\* C10 witness: an explicitly set empty local list was returned although the
\* global list holds a dependency.
C10_WitnessEmptyLocal ==
    /\ pc = "get_publish_dependencies"
    /\ item.local_properties.publish_dependencies = Some(<< >>)
    /\ item.properties.publish_dependencies = Some(<< DepPath >>)
    /\ ret[1] = << >>

----------------------------------------------------------------------------
(* Properties of the phases (checked under Spec).                           *)

\* a publish template is set for the item, locally or globally
PublishTemplateSet ==
    \/ item.local_properties.publish_template # None
    \/ item.properties.publish_template # None

\* C1: with the settings unchanged between the two phases, the name, the
\* context and the path validate passed to get_conflicting_publishes are the
\* name, the context and the path publish passes to register_publish.
C1_SameNameContextPath ==
    (pc = "published" /\ queried[1].settings = registered[1].settings) =>
        /\ registered[1].name = queried[1].name
        /\ registered[1].context = queried[1].context
        /\ registered[1].path = queried[1].path

\* C2: validate returns a boolean for every item.
C2_ValidateReturnsBoolean ==
    pc \in {"validated", "validate_raised"} => ret \in {Some(TRUE), Some(FALSE)}

\* C3: when the context of the item has no linked entity, validate fails with
\* the error "You Need to Link Publish element to Shot or Asset", logged and
\* raised, and with no other error.
C3_LinkErrorWithoutEntity ==
    (pc \in {"validated", "validate_raised"} /\ item.context.entity = None) =>
        /\ pc = "validate_raised"
        /\ raised = Error("Exception", LinkMsg, << >>)
        /\ LogRecord("error", LinkMsg, << >>) \in log

\* C4: for an item whose context has an entity, when get_conflicting_publishes
\* returns a publish, validate raises the error that a publish already matches
\* the path if "work_template" is among the properties or a publish template
\* is set, and otherwise logs a warning listing the conflicts and returns
\* True; when it returns no publish, validate returns True.
C4_ConflictingPublishes ==
    (/\ pc \in {"validated", "validate_raised"}
     /\ queried # None
     /\ item.context.entity # None) =>
        IF queried[1].result = << >>
        THEN pc = "validated" /\ ret = Some(TRUE) /\ raised = NoError /\ log = {}
        ELSE IF item.properties.work_template # None \/ PublishTemplateSet
        THEN /\ pc = "validate_raised"
             /\ raised = Error("Exception", ConflictMsg, << >>)
             /\ log = {LogRecord("error", ConflictMsg, << >>)}
        ELSE /\ pc = "validated" /\ ret = Some(TRUE) /\ raised = NoError
             /\ log = {LogRecord("warning", WarnMsg, queried[1].result)}

\* C4 witness: a conflicting publish was found for an item that has a publish
\* template but no work template, and validate raised the conflict error.
C4_WitnessRaised ==
    /\ pc = "validate_raised"
    /\ item.context.entity # None
    /\ queried # None
    /\ queried[1].result = << OldPublish >>
    /\ item.properties.work_template = None
    /\ item.properties.publish_template # None
    /\ raised.msg = ConflictMsg

\* C5: when the publish_name property is set on the item, its value is the
\* name passed to register_publish.
C5_PublishNameProperty ==
    (pc = "published" /\ item.properties.publish_name # None) =>
        registered[1].name = item.properties.publish_name[1]

\* C7: when no publish template and no publish_path property is set, publish
\* copies no file and registers the path the item had.
C7_PublishedInPlace ==
    [][ (/\ pc = "validated"
         /\ pc' = "published"
         /\ ~ PublishTemplateSet
         /\ item.properties.publish_path = None
         /\ item.local_properties.publish_path = None) =>
            /\ copied' = copied
            /\ registered'[1].path = item.properties.path[1] ]_vars

\* the elements of a list
Elements(list) == { list[i] : i \in DOMAIN list }

\* C11: when the properties of the item's parent hold sg_publish_path, that
\* path is among the dependency_paths passed to register_publish; when they do
\* not, dependency_paths is exactly the list get_publish_dependencies gives for
\* the item.
C11_ParentDependency ==
    pc = "published" =>
        IF item.parent.properties.sg_publish_path # None
        THEN item.parent.properties.sg_publish_path[1]
                 \in Elements(registered[1].dependency_paths)
        ELSE registered[1].dependency_paths =
                 get_publish_dependencies(registered[1].settings, item)

\* C11 witness: an item with a dependency of its own and a published parent
\* was registered with both paths.
C11_WitnessParent ==
    /\ pc = "published"
    /\ item.parent.properties.sg_publish_path = Some(ParentPath)
    /\ registered[1].dependency_paths = << DepPath, ParentPath >>

\* C15: after publish completes, the item's sg_publish_data property is the
\* value register_publish returned for the item; finalize passes exactly that
\* value, with the item's context, to clear_status_for_conflicting_publishes;
\* and nothing is cleared for an item whose publish did not register.
C15_FinalizeClearsRegistered ==
    /\ pc = "published" =>
          item.properties.sg_publish_data = Some(register_publish(registered[1]))
    /\ pc = "finalized" =>
          /\ registered # None
          /\ cleared = Some([context |-> item.context,
                             publish_data |-> register_publish(registered[1])])
    /\ registered = None => cleared = None

\* C15 witness: finalize ran after a publish that registered and the
\* conflicts of the registered publish were cleared.
C15_WitnessFinalized ==
    /\ pc = "finalized"
    /\ registered # None
    /\ cleared # None
    /\ cleared[1].publish_data.path = registered[1].path
    /\ cleared[1].context.entity = Some(Shot1)

\* finalize ran after a publish that raised and cleared nothing
C15_WitnessNotRegistered ==
    /\ pc = "finalize_raised"
    /\ registered = None
    /\ cleared = None

\* C16: when a file copy in publish fails, publish raises a generic exception
\* whose message names the source path and the publish folder, register_publish
\* is not called, and the path and sg_publish_data properties of the item are
\* what they were before publish.
C16_FailedCopyLeavesItem ==
    [][ (/\ pc = "validated"
         /\ pc' = "publish_raised"
         /\ \E i \in DOMAIN copied' : ~ copied'[i].ok) =>
            /\ raised'.type = "Exception"
            /\ raised'.args =
                   << item.properties.path[1],
                      dirname(internal_get_publish_path(settings, item)[2]) >>
            /\ registered' = None
            /\ item'.properties.path = item.properties.path
            /\ item'.properties.sg_publish_data = item.properties.sg_publish_data ]_vars

----------------------------------------------------------------------------
(* Properties of the helper methods (checked under SpecHelpers).            *)

\* the requirements of _copy_work_to_publish: both templates are set, the
\* sequence_paths, when present, are not empty, and every work file matches
\* the work template and yields the keys the publish template needs
CopyRequirementsMet ==
    /\ item.properties.work_template # None
    /\ PublishTemplateSet
    /\ item.properties.sequence_paths # Some(<< >>)
    /\ \A i \in DOMAIN work_files(item) :
          LET work_file == work_files(item)[i]
              work_template == item.properties.work_template[1]
          IN  /\ template_validate(work_template, work_file)
              /\ get_publish_template(settings, item)[1].keys
                     \subseteq DOMAIN template_get_fields(work_template, work_file)

\* C12: when a requirement of _copy_work_to_publish fails for any file, no
\* file has been copied when the method returns.
C12_NoCopyUnlessRequirementsMet ==
    (pc = "copy_work_to_publish" /\ ~ CopyRequirementsMet) => copied = << >>

\* the supplied path with its version bumped by 1
Bumped(path) == [path EXCEPT !.version = @ + 1]

\* C13: _save_to_next_version calls save_callback exactly once, with the
\* next-version path, and returns that path when the path carries a version
\* and no file exists at the next-version path; in every other case
\* save_callback is not called and None is returned.
C13_SaveToNextVersion ==
    pc = "save_to_next_version" =>
        LET path == args[1].path
        IN  IF path # None /\ path[1].version # NoVersion /\ ~ args[1].exists
            THEN /\ saved = << Bumped(path[1]) >>
                 /\ ret[1] = Some(Bumped(path[1]))
            ELSE /\ saved = << >>
                 /\ ret[1] = None

\* C13 witness: a session file of version MaxVersion was saved as the next
\* version, which did not exist.
C13_WitnessSaved ==
    /\ pc = "save_to_next_version"
    /\ args[1].path # None
    /\ args[1].path[1].version = MaxVersion
    /\ ~ args[1].exists
    /\ Len(saved) = 1
    /\ saved[1].version = MaxVersion + 1
    /\ ret[1] = Some(saved[1])

\* C14: _get_next_version_info returns (None, None) for an empty path; for a
\* path with a version it returns the path with the version bumped by 1 and
\* that version, whether the version comes from the work template or from the
\* path-info logic; for a path without version the version returned is None.
C14_NextVersionInfo ==
    pc = "get_next_version_info" =>
        LET path == args[1].path
        IN  IF path = None
            THEN ret[1] = << None, None >>
            ELSE IF path[1].version = NoVersion
            THEN ret[1][2] = None
            ELSE ret[1] = << Some(Bumped(path[1])), Some(path[1].version + 1) >>

\* C14 witness: the version came from the work template, which matched the
\* path and has a version key.
C14_WitnessTemplate ==
    /\ pc = "get_next_version_info"
    /\ args[1].path # None
    /\ WorkFields(item, args[1].path[1]) # None
    /\ "version" \in item.properties.work_template[1].keys
    /\ ret[1][2] = Some(args[1].path[1].version + 1)

\* the version came from the path-info logic: no work template is set
C14_WitnessPathInfo ==
    /\ pc = "get_next_version_info"
    /\ args[1].path # None
    /\ item.properties.work_template = None
    /\ ret[1][2] = Some(MaxVersion + 1)

----------------------------------------------------------------------------
(* Properties of the application (checked under SpecApp).                   *)

\* the commands this application registered with the engine
OwnCommands ==
    { i \in DOMAIN app.engine.commands : app.engine.commands[i].app = AppName }

\* C20: after init_app exactly one menu command of the application, captioned
\* "R8S Publish", is registered with the engine; every publish manager
\* create_publish_manager returned is a new instance of the PublishManager
\* class init_app captured; context_change_allowed is True in every state.
C20_AppContract ==
    /\ app.state # "created" =>
          /\ Cardinality(OwnCommands) = 1
          /\ \A i \in OwnCommands : app.engine.commands[i].name = "R8S Publish"
          /\ app.manager_class = Some(app.module.PublishManager)
    /\ \A i \in DOMAIN app.managers :
          /\ app.state # "created"
          /\ app.managers[i].class = app.module.PublishManager
          /\ \A j \in DOMAIN app.managers : i # j => app.managers[i] # app.managers[j]
    /\ pc = "create_publish_manager" => ret = Some(app.managers[Len(app.managers)])
    /\ context_change_allowed
    /\ pc = "context_change_allowed" => ret = Some(TRUE)

\* C20 witness: after init_app, in an engine that already held a command
\* with the same caption, MaxManagers managers of the site's class were made.
C20_WitnessManagers ==
    /\ app.state = "running"
    /\ Len(app.engine.commands) = 2
    /\ Len(app.managers) = MaxManagers
    /\ app.managers[MaxManagers].class = "SitePublishManager"
    /\ pc = "create_publish_manager"

----------------------------------------------------------------------------
(* Properties of the Draft scripts (checked under SpecDraft).               *)

\* a token that is a frame, a range, or a range with a step of at least 1
WellFormedToken(t) == t.kind \in {"frame", "range"} \/ (t.kind = "step" /\ t.n > 0)

\* the frames a well-formed token names: n; every integer from a to b; a and
\* every n-th frame from a towards b that does not pass b
NamedFrames(t) ==
    CASE t.kind = "frame" -> { t.a }
      [] t.kind = "range" -> t.a..t.b
      [] t.kind = "step" ->
            IF t.a <= t.b
            THEN { f \in t.a..t.b : (f - t.a) % t.n = 0 }
            ELSE { f \in t.b..t.a : (t.a - f) % t.n = 0 }

\* C18: FrameRangeToFrames returns the frames its tokens name, in ascending
\* order and without duplicates, the tokens being separated by whitespace or
\* commas; when a token is malformed it raises an error.
C18_FrameRangeToFrames ==
    pc = "FrameRangeToFrames" =>
        LET tokens == args[1].tokens
        IN  IF \A i \in DOMAIN tokens : WellFormedToken(tokens[i])
            THEN /\ raised = NoError
                 /\ ret = Some(SortedFrames(
                               UNION { NamedFrames(tokens[i]) : i \in DOMAIN tokens }))
            ELSE raised # NoError

\* the numbers the first n values of an element spell
ValuesOf(element, n) == [i \in 1..n |-> element.values[i].value]

\* an element that is missing or has fewer than n values or a value among
\* the first n that is no number
BadElement(element, n) ==
    \/ ~ element.present
    \/ Len(element.values) < n
    \/ \E i \in 1..n : element.values[i].value = None

\* C19: with raiseExceptionOnError false ReadASCCDL never raises: on a problem
\* with the file (no XML, a missing Slope, Offset, Power or Saturation, fewer
\* than three values, a value that is no number) it warns and returns None;
\* with raiseExceptionOnError true it raises the error; for a well-formed file
\* it returns the LUT of the three slope, offset and power values and the
\* first saturation value.
C19_ReadASCCDL ==
    pc = "ReadASCCDL" =>
        LET cdl == args[1].cdl
            problem == \/ ~ cdl.parses
                       \/ BadElement(cdl.Slope, 3) \/ BadElement(cdl.Offset, 3)
                       \/ BadElement(cdl.Power, 3) \/ BadElement(cdl.Saturation, 1)
            well_formed == /\ ~ problem
                           /\ \A tag \in {"Slope", "Offset", "Power"} :
                                 Len(cdl[tag].values) = 3
        IN  /\ ~ args[1].raiseExceptionOnError => raised = NoError
            /\ (problem /\ ~ args[1].raiseExceptionOnError) =>
                  /\ ret = Some(None)
                  /\ LogRecord("warning", CDLWarnMsg, << >>) \in log
            /\ (problem /\ args[1].raiseExceptionOnError) =>
                  raised # NoError /\ ret = None
            /\ well_formed =>
                  /\ raised = NoError
                  /\ ret = Some(Some([slope |-> ValuesOf(cdl.Slope, 3),
                                      offset |-> ValuesOf(cdl.Offset, 3),
                                      power |-> ValuesOf(cdl.Power, 3),
                                      saturation |-> cdl.Saturation.values[1].value]))

\* C19 witness: a file whose Power has two values only was read with
\* raiseExceptionOnError false; None was returned after the warning.
C19_WitnessWarned ==
    /\ pc = "ReadASCCDL"
    /\ ~ args[1].raiseExceptionOnError
    /\ args[1].cdl.parses
    /\ Len(args[1].cdl.Power.values) = 2
    /\ ret = Some(None)
    /\ raised = NoError
    /\ log # {}

\* a well-formed file with two saturation values gave a LUT
C19_WitnessLUT ==
    /\ pc = "ReadASCCDL"
    /\ Len(args[1].cdl.Saturation.values) = 2
    /\ ret # None
    /\ ret[1] # None
    /\ ret[1][1].saturation = Some([num |-> -25, scale |-> 2])

\* a value is of a type: any text is a string, a whole number is an int and
\* a float, a number with a dot is a float, a tuple is of a tuple type of its
\* length whose element types its elements are of
RECURSIVE Conforms(_, _)
Conforms(v, t) ==
    CASE t.kind = "string" -> TRUE
      [] t.kind = "int" -> v.kind = "int"
      [] t.kind = "float" -> v.kind \in {"int", "float"}
      [] t.kind = "tuple" ->
            /\ v.kind = "tuple"
            /\ Len(v.items) = Len(t.items)
            /\ \A i \in DOMAIN t.items : Conforms(v.items[i], t.items[i])

\* a value of a type, cast to it
RECURSIVE CastTo(_, _, _)
CastTo(v, t, sep) ==
    CASE t.kind = "string" -> StrValue(RenderValue(v, sep))
      [] t.kind = "int" -> IntValue(v.num)
      [] t.kind = "float" -> FloatValue([num |-> v.num, scale |-> v.scale])
      [] t.kind = "tuple" ->
            ListValue([i \in DOMAIN t.items |-> CastTo(v.items[i], t.items[i], sep)])

\* C17: ParseParamFile and ParseCommandLine either return a dictionary that
\* holds every expected parameter with its value cast to the expected type
\* (string, int, float, or a tuple of these, nested) or raise an error; an
\* error is raised whenever an expected parameter is missing or its value is
\* not of the expected type.
C17_ParseParams ==
    pc \in {"ParseParamFile", "ParseCommandLine"} =>
        LET expected == args[1].expected
            given == args[1].given
        IN  /\ raised = NoError =>
                  /\ ret # None
                  /\ \A key \in DOMAIN expected :
                        /\ key \in DOMAIN given
                        /\ Conforms(given[key], expected[key])
                        /\ key \in DOMAIN ret[1]
                        /\ ret[1][key] = CastTo(given[key], expected[key], args[1].sep)
            /\ (\E key \in DOMAIN expected :
                   \/ key \notin DOMAIN given
                   \/ ~ Conforms(given[key], expected[key]))
                  => raised # NoError /\ ret = None

\* C17 witness: the command line named a parameter file; a tuple in a tuple
\* was cast to a list in a list, and the parameter b to an int.
C17_WitnessNested ==
    /\ pc = "ParseCommandLine"
    /\ raised = NoError
    /\ ret # None
    /\ {KeyA, KeyB} \subseteq DOMAIN ret[1]
    /\ Word.paramFile \notin DOMAIN ret[1]
    /\ ret[1][KeyB] = IntValue(7)
    /\ ret[1][KeyA].kind = "list"
    /\ ret[1][KeyA].items # << >>
    /\ ret[1][KeyA].items[1] = ListValue(<< IntValue(7), FloatValue([num |-> 15, scale |-> 1]) >>)

\* an expected parameter was missing from the parameter file; an error was
\* raised
C17_WitnessMissing ==
    /\ pc = "ParseParamFile"
    /\ KeyB \in DOMAIN args[1].expected
    /\ KeyB \notin DOMAIN args[1].given
    /\ Conforms(args[1].given[KeyA], args[1].expected[KeyA])
    /\ raised.type = "StandardError"

\* a tuple of two values was given for a tuple type of one; an error was raised
C17_WitnessLength ==
    /\ pc = "ParseParamFile"
    /\ args[1].expected[KeyA].kind = "tuple"
    /\ KeyA \in DOMAIN args[1].given
    /\ args[1].given[KeyA].kind = "tuple"
    /\ Len(args[1].given[KeyA].items) > Len(args[1].expected[KeyA].items)
    /\ \A i \in DOMAIN args[1].expected[KeyA].items :
          Conforms(args[1].given[KeyA].items[i], args[1].expected[KeyA].items[i])
    /\ raised # NoError

====
